---- MODULE Spec2Model ----
(***************************************************************************)
(* Model of immich-kiosk-scheduler: the date-range engine                  *)
(* (internal/scheduler/scheduler.go: ParseMonthDay, monthDayToDOY,         *)
(* isYearWrap, New and the lookups of a Scheduler), the config validation  *)
(* (internal/config/config.go) and the redirect handler with its metrics   *)
(* (internal/server/server.go).                                            *)
(*                                                                         *)
(* Go strings that the code parses are sequences of one-character strings  *)
(* (<<"1","1","-","1","5">> is "11-15"); names and albums, which the code  *)
(* only copies and returns, are TLA+ strings.  A Go pointer or error is a  *)
(* sequence of length at most one: <<>> is nil, <<v>> is a value.          *)
(***************************************************************************)
EXTENDS Integers, Sequences, FiniteSets, TLC

VARIABLES
    pc,        \* position of the program: "start", "ready", "failed", "done"
    cfg,       \* the config.Config handed to New
    sched,     \* the *Scheduler New returned: <<>> (nil) or <<s>>
    newErr,    \* the error New returned: <<>> (nil) or <<e>>
    now,       \* calendar date of the host clock (time.Now())
    albumRes,  \* answer of the last GetCurrentAlbum: <<>> or <<[date, idx, album]>>
    nameRes,   \* answer of the last GetCurrentScheduleName: <<>> or <<[date, idx, name]>>
    input,     \* the string handed to ParseMonthDay
    parsed,    \* what ParseMonthDay returned: <<>> or <<[month, day, err]>>
    pairs,     \* two (month, day) pairs handed to monthDayToDOY
    ords,      \* their ordinals: <<>> or <<doy1, doy2>>
    getRes,    \* answer of the last GetScheduleCount or GetDefaultAlbum: <<>> or <<[op, val]>>
    entryRes,  \* answer of the last ScheduleEntry.Validate: <<>> or <<[i, err]>>
    cfgRes,    \* answer of Config.Validate: <<>> or <<[err]>>
    sanRes,    \* answer of the last SanitizeParam: <<>> or <<[i, param, valid]>>
    srv,       \* the *Server server.New returned: <<>> (nil) or <<s>>
    handlers,  \* the running handleRedirect calls: position, request, locals, response
    redirectsTotal,   \* the counter vector: schedule label -> count
    currentSchedule,  \* the gauge vector: schedule label -> value
    testRes,   \* what the test command reported: <<>> or <<[dateStr, err, testDate, ...]>>
    serve      \* StartWithContext and its goroutines: <<>> before it is called

\* The variables of the operations outside the scheduler's lookups.
confVars == <<entryRes, cfgRes, sanRes>>

srvVars == <<srv, handlers, redirectsTotal, currentSchedule>>

mainVars == <<testRes, serve>>

ext == <<getRes, confVars, srvVars, mainVars>>

vars == <<pc, cfg, sched, newErr, now, albumRes, nameRes, input, parsed, pairs, ords,
          ext>>

----------------------------------------------------------------------------
(* Bounds *)

MaxLen == 5          \* longest string handed to ParseMonthDay
MaxEntries == 2      \* longest cfg.Schedule
MinYear == 2023      \* the clock starts on January 1 of MinYear
MaxYear == 2024      \* and stops on December 31 of MaxYear
MaxParamLen == 3     \* longest name handed to SanitizeParam

errChCap == 1        \* make(chan error, 1)

----------------------------------------------------------------------------
(* strings and strconv *)

Digits == {"0", "1", "2", "3", "4", "5", "6", "7", "8", "9"}

DigitVal(c) ==
    CASE c = "0" -> 0 [] c = "1" -> 1 [] c = "2" -> 2 [] c = "3" -> 3
      [] c = "4" -> 4 [] c = "5" -> 5 [] c = "6" -> 6 [] c = "7" -> 7
      [] c = "8" -> 8 [] c = "9" -> 9

\* strings.Split(s, "-"): the substrings between the hyphens, "" included.
RECURSIVE Split(_)
Split(s) ==
    IF \A i \in 1..Len(s) : s[i] # "-"
      THEN <<s>>
      ELSE LET i == CHOOSE k \in 1..Len(s) :
                        s[k] = "-" /\ \A j \in 1..(k - 1) : s[j] # "-"
           IN  <<SubSeq(s, 1, i - 1)>> \o Split(SubSeq(s, i + 1, Len(s)))

\* The digit loop of strconv.Atoi: n = n*10 + ch, a syntax error on a non-digit.
RECURSIVE AtoiDigits(_, _)
AtoiDigits(s, n) ==
    IF s = <<>> THEN [ok |-> TRUE, val |-> n]
    ELSE IF s[1] \notin Digits THEN [ok |-> FALSE, val |-> 0]
    ELSE AtoiDigits(Tail(s), n * 10 + DigitVal(s[1]))

\* strconv.Atoi on a string shorter than 19 characters (its fast path): an
\* optional sign, then at least one digit.
Atoi(s) ==
    IF s = <<>> THEN [ok |-> FALSE, val |-> 0]
    ELSE LET signed == s[1] \in {"-", "+"}
             body   == IF signed THEN Tail(s) ELSE s
             r      == AtoiDigits(body, 0)
         IN  IF body = <<>> \/ ~r.ok THEN [ok |-> FALSE, val |-> 0]
             ELSE IF s[1] = "-" THEN [ok |-> TRUE, val |-> 0 - r.val]
             ELSE r

\* fmt.Errorf: an error value with its message and its argument.
Error(kind, arg) == <<[kind |-> kind, arg |-> arg]>>

----------------------------------------------------------------------------
(* config.go *)

\* The white space strings.TrimSpace removes, as far as the inputs have it.
Space == {" ", "\t", "\n", "\r"}

RECURSIVE TrimLeft(_)
TrimLeft(s) == IF s # <<>> /\ s[1] \in Space THEN TrimLeft(Tail(s)) ELSE s

RECURSIVE TrimRight(_)
TrimRight(s) ==
    IF s # <<>> /\ s[Len(s)] \in Space THEN TrimRight(SubSeq(s, 1, Len(s) - 1)) ELSE s

TrimSpace(s) == TrimRight(TrimLeft(s))

\* dateRegex.MatchString: ^(0[1-9]|1[0-2])-(0[1-9]|[12]\d|3[01])$
dateRegex(s) ==
    /\ Len(s) = 5
    /\ \/ s[1] = "0" /\ s[2] \in Digits \ {"0"}
       \/ s[1] = "1" /\ s[2] \in {"0", "1", "2"}
    /\ s[3] = "-"
    /\ \/ s[4] = "0" /\ s[5] \in Digits \ {"0"}
       \/ s[4] \in {"1", "2"} /\ s[5] \in Digits
       \/ s[4] = "3" /\ s[5] \in {"0", "1"}

Letters ==
    { "a", "b", "c", "d", "e", "f", "g", "h", "i", "j", "k", "l", "m",
      "n", "o", "p", "q", "r", "s", "t", "u", "v", "w", "x", "y", "z",
      "A", "B", "C", "D", "E", "F", "G", "H", "I", "J", "K", "L", "M",
      "N", "O", "P", "Q", "R", "S", "T", "U", "V", "W", "X", "Y", "Z" }

\* paramRegex without its anchor at the start of the string.
paramRegexUnanchored(s) ==
    /\ s # <<>>
    /\ \E i \in 1..Len(s) :
         /\ s[i] \in Letters
         /\ \A j \in (i + 1)..Len(s) : s[j] \in Letters \cup Digits \cup {"_", "-"}

\* paramRegex.MatchString: ^[a-zA-Z][a-zA-Z0-9_-]*$
paramRegex(s) ==
    /\ s # <<>>
    /\ s[1] \in Letters
    /\ \A i \in 2..Len(s) : s[i] \in Letters \cup Digits \cup {"_", "-"}

\* validateDate without the check of the day against the month's length.
validateDateAnyDay(date) ==
    LET parts == Split(date)
    IN  IF Len(parts) # 2 THEN Error("invalid date format", <<>>)
        ELSE LET m == Atoi(parts[1])
                 d == Atoi(parts[2])
             IN  IF ~m.ok \/ m.val < 1 \/ m.val > 12
                   THEN Error("invalid month", parts[1])
                 ELSE IF ~d.ok \/ d.val < 1 \/ d.val > 31
                   THEN Error("invalid day", parts[2])
                 ELSE <<>>

validateDate(date) ==
    LET parts == Split(date)
    IN  IF Len(parts) # 2 THEN Error("invalid date format", <<>>)
        ELSE LET m == Atoi(parts[1])
                 d == Atoi(parts[2])
                 maxDays == <<31, 29, 31, 30, 31, 30, 31, 31, 30, 31, 30, 31>>
             IN  IF ~m.ok \/ m.val < 1 \/ m.val > 12
                   THEN Error("invalid month", parts[1])
                 ELSE IF ~d.ok \/ d.val < 1 \/ d.val > 31
                   THEN Error("invalid day", parts[2])
                 ELSE IF d.val > maxDays[m.val]
                   THEN Error("day is invalid for month", <<d.val, m.val>>)
                 ELSE <<>>

\* (*ScheduleEntry).Validate: nil (<<>>) or the first error.
ScheduleEntryValidate(e) ==
    IF TrimSpace(e.Name) = <<>>
      THEN Error("schedule entry name is required", <<>>)
    ELSE IF TrimSpace(e.Album) = <<>>
      THEN Error("schedule entry album is required", <<>>)
    ELSE IF ~dateRegex(e.Start)
      THEN Error("invalid start date format", e.Start)
    ELSE IF ~dateRegex(e.End)
      THEN Error("invalid end date format", e.End)
    ELSE IF validateDate(e.Start) # <<>>
      THEN Error("invalid start date", validateDate(e.Start)[1])
    ELSE IF validateDate(e.End) # <<>>
      THEN Error("invalid end date", validateDate(e.End)[1])
    ELSE <<>>

\* The name of the album parameter.
albumParam == <<"a", "l", "b", "u", "m">>

\* What url.Parse makes of the kiosk URLs of the inputs: an error, or the
\* scheme, the host and the parameters of the raw query of the URL.
urlParse(u) ==
    CASE u = "https://kiosk.example.com" ->
           [err |-> FALSE, Scheme |-> "https", Host |-> "kiosk.example.com",
            RawQuery |-> <<>>]
      [] u = "https://kiosk.example.com?album=old&t=slide" ->
           [err |-> FALSE, Scheme |-> "https", Host |-> "kiosk.example.com",
            RawQuery |-> << <<albumParam, "old">>, << <<"t">>, "slide" >> >>]
      [] u = "ftp://kiosk.example.com" ->
           [err |-> FALSE, Scheme |-> "ftp", Host |-> "kiosk.example.com",
            RawQuery |-> <<>>]
      [] u = "http://" ->
           [err |-> FALSE, Scheme |-> "http", Host |-> "", RawQuery |-> <<>>]
      [] u = "://kiosk" ->
           [err |-> TRUE, Scheme |-> "", Host |-> "", RawQuery |-> <<>>]

\* The loop of Config.Validate over c.Schedule, from entry i on.
RECURSIVE ValidateLoop(_, _)
ValidateLoop(c, i) ==
    IF i > Len(c.Schedule) THEN <<>>
    ELSE LET err == ScheduleEntryValidate(c.Schedule[i])
         IN  IF err # <<>>
               THEN <<[kind |-> "schedule entry", index |-> i - 1,
                       name |-> c.Schedule[i].Name, cause |-> err[1]]>>
               ELSE ValidateLoop(c, i + 1)

\* (*Config).Validate: nil (<<>>) or the first error.
ConfigValidate(c) ==
    IF c.KioskURL \in {"", " "}
      THEN Error("kiosk_url is required", <<>>)
    ELSE IF urlParse(c.KioskURL).err
      THEN Error("invalid kiosk_url", <<>>)
    ELSE IF urlParse(c.KioskURL).Scheme \notin {"http", "https"}
      THEN Error("kiosk_url must use http or https scheme", <<>>)
    ELSE IF urlParse(c.KioskURL).Host = ""
      THEN Error("kiosk_url must include a host", <<>>)
    ELSE IF TrimSpace(c.DefaultAlbum) = <<>>
      THEN Error("default_album is required", <<>>)
    ELSE IF c.Port < 1 \/ c.Port > 65535
      THEN Error("port must be between 1 and 65535", <<>>)
    ELSE ValidateLoop(c, 1)

\* SanitizeParam: the trimmed name and true, or "" and false.
SanitizeParam(param) ==
    LET trimmed == TrimSpace(param)
    IN  IF trimmed = <<>> THEN [param |-> <<>>, valid |-> FALSE]
        ELSE IF ~paramRegex(trimmed) THEN [param |-> <<>>, valid |-> FALSE]
        ELSE [param |-> trimmed, valid |-> TRUE]

----------------------------------------------------------------------------
(* scheduler.go *)


\* ParseMonthDay with the day checked before the month.
ParseMonthDayDayFirst(s) ==
    LET parts == Split(s) IN
    IF Len(parts) # 2
      THEN [month |-> 0, day |-> 0, err |-> Error("invalid format", s)]
    ELSE LET d == Atoi(parts[2]) IN
    IF ~d.ok \/ d.val < 1 \/ d.val > 31
      THEN [month |-> 0, day |-> 0, err |-> Error("invalid day", parts[2])]
    ELSE LET m == Atoi(parts[1]) IN
    IF ~m.ok \/ m.val < 1 \/ m.val > 12
      THEN [month |-> 0, day |-> 0, err |-> Error("invalid month", parts[1])]
    ELSE [month |-> m.val, day |-> d.val, err |-> <<>>]

\* ParseMonthDay with the day bounded by 30.
ParseMonthDayDayBelow31(s) ==
    LET parts == Split(s) IN
    IF Len(parts) # 2
      THEN [month |-> 0, day |-> 0, err |-> Error("invalid format", s)]
    ELSE LET m == Atoi(parts[1]) IN
    IF ~m.ok \/ m.val < 1 \/ m.val > 12
      THEN [month |-> 0, day |-> 0, err |-> Error("invalid month", parts[1])]
    ELSE LET d == Atoi(parts[2]) IN
    IF ~d.ok \/ d.val < 1 \/ d.val > 30
      THEN [month |-> 0, day |-> 0, err |-> Error("invalid day", parts[2])]
    ELSE [month |-> m.val, day |-> d.val, err |-> <<>>]

ParseMonthDay(s) ==
    LET parts == Split(s) IN
    IF Len(parts) # 2
      THEN [month |-> 0, day |-> 0, err |-> Error("invalid format", s)]
    ELSE LET m == Atoi(parts[1]) IN
    IF ~m.ok \/ m.val < 1 \/ m.val > 12
      THEN [month |-> 0, day |-> 0, err |-> Error("invalid month", parts[1])]
    ELSE LET d == Atoi(parts[2]) IN
    IF ~d.ok \/ d.val < 1 \/ d.val > 31
      THEN [month |-> 0, day |-> 0, err |-> Error("invalid day", parts[2])]
    ELSE [month |-> m.val, day |-> d.val, err |-> <<>>]

\* The month table of a non-leap year.
daysInMonthFeb28 == <<31, 28, 31, 30, 31, 30, 31, 31, 30, 31, 30, 31>>

daysInMonth == <<31, 29, 31, 30, 31, 30, 31, 31, 30, 31, 30, 31>>

\* The month loop run one month too far (m <= month).
RECURSIVE doyLoopInclusive(_, _, _)
doyLoopInclusive(m, month, doy) ==
    IF m <= month THEN doyLoopInclusive(m + 1, month, doy + daysInMonth[m]) ELSE doy

\* for m := 1; m < month; m++ { doy += daysInMonth[m] }
RECURSIVE doyLoop(_, _, _)
doyLoop(m, month, doy) ==
    IF m < month THEN doyLoop(m + 1, month, doy + daysInMonth[m]) ELSE doy

monthDayToDOY(month, day) == doyLoop(1, month, 0) + day

\* isYearWrap comparing the months only.
isYearWrapByMonth(startMonth, startDay, endMonth, endDay) == endMonth < startMonth

\* isYearWrap taking equal ordinals for a wrap as well.
isYearWrapOrEqual(startMonth, startDay, endMonth, endDay) ==
    LET startDOY == monthDayToDOY(startMonth, startDay)
        endDOY   == monthDayToDOY(endMonth, endDay)
    IN  endDOY <= startDOY

isYearWrap(startMonth, startDay, endMonth, endDay) ==
    LET startDOY == monthDayToDOY(startMonth, startDay)
        endDOY   == monthDayToDOY(endMonth, endDay)
    IN  endDOY < startDOY

NewError(which, name, cause) == <<[which |-> which, name |-> name, cause |-> cause[1]]>>

\* New as a best-effort constructor: an entry that does not parse is skipped.
RECURSIVE NewLoopSkipBad(_, _, _)
NewLoopSkipBad(c, i, ranges) ==
    IF i > Len(c.Schedule)
      THEN [s   |-> <<[defaultAlbum |-> c.DefaultAlbum, ranges |-> ranges]>>,
            err |-> <<>>]
    ELSE LET entry == c.Schedule[i]
             st    == ParseMonthDay(entry.Start)
             en    == ParseMonthDay(entry.End)
         IN
    IF st.err # <<>> \/ en.err # <<>>
      THEN NewLoopSkipBad(c, i + 1, ranges)
    ELSE LET dr == [name       |-> entry.Name,
                    album      |-> entry.Album,
                    startMonth |-> st.month,
                    startDay   |-> st.day,
                    endMonth   |-> en.month,
                    endDay     |-> en.day,
                    wrapsYear  |-> isYearWrap(st.month, st.day, en.month, en.day)]
         IN  NewLoopSkipBad(c, i + 1, Append(ranges, dr))

\* New putting each range in front of the earlier ones.
RECURSIVE NewLoopPrepend(_, _, _)
NewLoopPrepend(c, i, ranges) ==
    IF i > Len(c.Schedule)
      THEN [s   |-> <<[defaultAlbum |-> c.DefaultAlbum, ranges |-> ranges]>>,
            err |-> <<>>]
    ELSE LET entry == c.Schedule[i]
             st    == ParseMonthDay(entry.Start)
         IN
    IF st.err # <<>>
      THEN [s |-> <<>>, err |-> NewError("start", entry.Name, st.err)]
    ELSE LET en == ParseMonthDay(entry.End) IN
    IF en.err # <<>>
      THEN [s |-> <<>>, err |-> NewError("end", entry.Name, en.err)]
    ELSE LET dr == [name       |-> entry.Name,
                    album      |-> entry.Album,
                    startMonth |-> st.month,
                    startDay   |-> st.day,
                    endMonth   |-> en.month,
                    endDay     |-> en.day,
                    wrapsYear  |-> isYearWrap(st.month, st.day, en.month, en.day)]
         IN  NewLoopPrepend(c, i + 1, <<dr>> \o ranges)

\* The loop of New over cfg.Schedule from entry i on, ranges being s.ranges so far.
RECURSIVE NewLoop(_, _, _)
NewLoop(c, i, ranges) ==
    IF i > Len(c.Schedule)
      THEN [s   |-> <<[defaultAlbum |-> c.DefaultAlbum, ranges |-> ranges]>>,
            err |-> <<>>]
    ELSE LET entry == c.Schedule[i]
             st    == ParseMonthDay(entry.Start)
         IN
    IF st.err # <<>>
      THEN [s |-> <<>>, err |-> NewError("start", entry.Name, st.err)]
    ELSE LET en == ParseMonthDay(entry.End) IN
    IF en.err # <<>>
      THEN [s |-> <<>>, err |-> NewError("end", entry.Name, en.err)]
    ELSE LET dr == [name       |-> entry.Name,
                    album      |-> entry.Album,
                    startMonth |-> st.month,
                    startDay   |-> st.day,
                    endMonth   |-> en.month,
                    endDay     |-> en.day,
                    wrapsYear  |-> isYearWrap(st.month, st.day, en.month, en.day)]
         IN  NewLoop(c, i + 1, Append(ranges, dr))

New(c) == NewLoop(c, 1, <<>>)

\* dateInRange with the end of a non-wrapping range exclusive.
dateInRangeEndExclusive(currentDOY, r) ==
    LET startDOY == monthDayToDOY(r.startMonth, r.startDay)
        endDOY   == monthDayToDOY(r.endMonth, r.endDay)
    IN  IF r.wrapsYear
          THEN currentDOY >= startDOY \/ currentDOY <= endDOY
          ELSE currentDOY >= startDOY /\ currentDOY < endDOY

\* dateInRange with the wrapping case evaluated like the non-wrapping one.
dateInRangeWrapAsPlain(currentDOY, r) ==
    LET startDOY == monthDayToDOY(r.startMonth, r.startDay)
        endDOY   == monthDayToDOY(r.endMonth, r.endDay)
    IN  currentDOY >= startDOY /\ currentDOY <= endDOY

dateInRange(currentDOY, r) ==
    LET startDOY == monthDayToDOY(r.startMonth, r.startDay)
        endDOY   == monthDayToDOY(r.endMonth, r.endDay)
    IN  IF r.wrapsYear
          THEN currentDOY >= startDOY \/ currentDOY <= endDOY
          ELSE currentDOY >= startDOY /\ currentDOY <= endDOY

\* The range loop keeping the last match instead of returning at the first.
RECURSIVE rangeLoopLast(_, _, _)
rangeLoopLast(s, currentDOY, i) ==
    LET later == IF i >= Len(s.ranges) THEN 0 ELSE rangeLoopLast(s, currentDOY, i + 1)
    IN  IF later # 0 THEN later
        ELSE IF i <= Len(s.ranges) /\ dateInRange(currentDOY, s.ranges[i]) THEN i
        ELSE 0

\* for _, r := range s.ranges { if s.dateInRange(currentDOY, r) { return ... } }:
\* the index of the range at which the loop returns, 0 when it falls through.
RECURSIVE rangeLoop(_, _, _)
rangeLoop(s, currentDOY, i) ==
    IF i > Len(s.ranges) THEN 0
    ELSE IF dateInRange(currentDOY, s.ranges[i]) THEN i
    ELSE rangeLoop(s, currentDOY, i + 1)

\* time.Time.YearDay: the day of the year in the date's own year.
RECURSIVE YearDayLoop(_, _, _)
YearDayLoop(y, m, month) ==
    IF m >= month THEN 0
    ELSE (IF m = 2 /\ ~((y % 4 = 0 /\ y % 100 # 0) \/ y % 400 = 0)
            THEN 28 ELSE daysInMonth[m])
         + YearDayLoop(y, m + 1, month)

\* The album lookup taking the ordinal from the date's own year (t.YearDay()).
AlbumLoopIndexYearDay(s, t) == rangeLoop(s, YearDayLoop(t.year, 1, t.month) + t.day, 1)

AlbumLoopIndex(s, t) == rangeLoop(s, monthDayToDOY(t.month, t.day), 1)

\* The name lookup walking the ranges from the last to the first.
NameLoopIndexBackwards(s, t) == rangeLoopLast(s, monthDayToDOY(t.month, t.day), 1)

NameLoopIndex(s, t) == rangeLoop(s, monthDayToDOY(t.month, t.day), 1)

\* GetAlbumForDate without the fall-through to the default album.
GetAlbumForDateNoDefault(s, t) ==
    LET i == AlbumLoopIndex(s, t)
    IN  IF i # 0 THEN s.ranges[i].album ELSE ""

GetAlbumForDate(s, t) ==
    LET i == AlbumLoopIndex(s, t)
    IN  IF i # 0 THEN s.ranges[i].album ELSE s.defaultAlbum

GetScheduleNameForDate(s, t) ==
    LET i == NameLoopIndex(s, t)
    IN  IF i # 0 THEN s.ranges[i].name ELSE "default"

GetDefaultAlbum(s) == s.defaultAlbum

GetScheduleCount(s) == Len(s.ranges)

----------------------------------------------------------------------------
(* server.go *)

\* url.ParseQuery: the values of every key, in the order of the query.
RECURSIVE ParseQuery(_)
ParseQuery(query) ==
    IF query = <<>> THEN <<>>
    ELSE LET rest == ParseQuery(SubSeq(query, 1, Len(query) - 1))
             k    == query[Len(query)][1]
             v    == query[Len(query)][2]
         IN  [x \in DOMAIN rest \cup {k} |->
                IF x # k THEN rest[x]
                ELSE IF k \in DOMAIN rest THEN Append(rest[k], v) ELSE <<v>>]

\* url.Values.Get: the first value of the key, "" without one.
QueryGet(values, key) ==
    IF key \in DOMAIN values /\ values[key] # <<>> THEN values[key][1] ELSE ""

\* url.Values.Set: the key gets the one value.
QuerySet(values, key, value) ==
    [x \in DOMAIN values \cup {key} |-> IF x = key THEN <<value>> ELSE values[x]]

\* url.Values.Encode: key=value for every value of every key (the keys are
\* written in sorted order, the parameters are kept here by key).
QueryEncode(values) ==
    [x \in {k \in DOMAIN values : values[k] # <<>>} |-> values[x]]

\* The loop of server.New over cfg.PassthroughParams, from parameter i on.
RECURSIVE passthroughLoop(_, _, _)
passthroughLoop(c, i, passthroughMap) ==
    IF i > Len(c.PassthroughParams) THEN passthroughMap
    ELSE LET r == SanitizeParam(c.PassthroughParams[i])
         IN  passthroughLoop(c, i + 1,
                 IF r.valid THEN passthroughMap \cup {r.param} ELSE passthroughMap)

\* server.New: the Server with its allow-list (the keys of passthroughParams).
ServerNew(c, s) ==
    [scheduler         |-> s,
     kioskURL          |-> c.KioskURL,
     passthroughParams |-> passthroughLoop(c, 1, {}),
     port              |-> c.Port]

\* The loop of buildRedirectURL over s.passthroughParams (a map: any order).
RECURSIVE forwardLoop(_, _, _)
forwardLoop(params, request, q) ==
    IF params = {} THEN q
    ELSE LET param == CHOOSE x \in params : TRUE
             value == QueryGet(request, param)
         IN  forwardLoop(params \ {param}, request,
                 IF value # "" THEN QuerySet(q, param, value) ELSE q)

\* buildRedirectURL: the URL and a nil error, or "" and an error.
buildRedirectURL(s, query, album) ==
    LET u == urlParse(s.kioskURL)
    IN  IF u.err THEN [url |-> <<>>, err |-> Error("invalid kiosk URL", <<>>)]
        ELSE LET q == forwardLoop(s.passthroughParams, ParseQuery(query),
                                  QuerySet(ParseQuery(u.RawQuery), albumParam, album))
             IN  [url |-> <<[Scheme |-> u.Scheme, Host |-> u.Host,
                             RawQuery |-> QueryEncode(q)]>>,
                  err |-> <<>>]

\* CounterVec.WithLabelValues(label).Inc()
Inc(vec, label) ==
    [l \in DOMAIN vec \cup {label} |->
       IF l = label THEN (IF l \in DOMAIN vec THEN vec[l] + 1 ELSE 1) ELSE vec[l]]

\* GaugeVec.Reset(): every label is deleted.
Reset(vec) == <<>>

\* GaugeVec.WithLabelValues(label).Set(value)
Set(vec, label, value) ==
    [l \in DOMAIN vec \cup {label} |-> IF l = label THEN value ELSE vec[l]]

----------------------------------------------------------------------------
(* The host clock: time.Now() is a date of the proleptic Gregorian calendar *)

IsLeap(y) == (y % 4 = 0 /\ y % 100 # 0) \/ y % 400 = 0

DaysIn(y, m) == IF m = 2 /\ ~IsLeap(y) THEN 28 ELSE daysInMonth[m]

NextDay(t) ==
    IF t.day < DaysIn(t.year, t.month)
      THEN [t EXCEPT !.day = t.day + 1]
    ELSE IF t.month < 12
      THEN [t EXCEPT !.month = t.month + 1, !.day = 1]
    ELSE [year |-> t.year + 1, month |-> 1, day |-> 1]

\* time.Date(year, month, day, 0, 0, 0, 0, loc) for a month in 1..12 and a day
\* in 1..31: a day past the end of the month is carried into the next month.
timeDate(year, month, day) ==
    IF day <= DaysIn(year, month)
      THEN [year |-> year, month |-> month, day |-> day]
      ELSE [year |-> year, month |-> month + 1, day |-> day - DaysIn(year, month)]

----------------------------------------------------------------------------
(* main.go *)

\* runTest after scheduler.New: the date of the --date flag ("" without the
\* flag) and what is printed for it.
runTest(s, dateStr, today) ==
    IF dateStr = <<>>
      THEN [dateStr |-> dateStr, err |-> <<>>, testDate |-> <<today>>,
            scheduleName |-> GetScheduleNameForDate(s, today),
            album |-> GetAlbumForDate(s, today)]
    ELSE LET r == ParseMonthDay(dateStr) IN
    IF r.err # <<>>
      THEN [dateStr |-> dateStr, err |-> Error("invalid date format", r.err[1]),
            testDate |-> <<>>, scheduleName |-> "", album |-> ""]
    ELSE LET testDate == timeDate(today.year, r.month, r.day)
         IN  [dateStr |-> dateStr, err |-> <<>>, testDate |-> <<testDate>>,
              scheduleName |-> GetScheduleNameForDate(s, testDate),
              album |-> GetAlbumForDate(s, testDate)]

----------------------------------------------------------------------------
(* Inputs *)

Str(a, b, c, d) == <<a, b, "-", c, d>>

Entry(name, album, start, end) ==
    [Name |-> name, Album |-> album, Start |-> start, End |-> end]

\* Schedule entries a config file can hold: the ranges of the repository's
\* tests, and three with a boundary that does not parse.
EntryPool ==
    { Entry("special",   "special-album",   Str("1","2","2","0"), Str("1","2","2","6")),
      Entry("christmas", "christmas-album", Str("1","1","1","5"), Str("0","1","0","1")),
      Entry("summer",    "summer-album",    Str("0","6","2","1"), Str("0","9","2","1")),
      Entry("badstart",  "badstart-album",  Str("1","3","0","1"), Str("0","1","0","1")),
      Entry("badend",    "badend-album",    Str("0","1","0","1"), Str("0","1","3","2")),
      Entry("badboth",   "badboth-album",
            <<"2","0","2","4","-","1","1","-","1","5">>, <<"x">>) }

Configs ==
    { [DefaultAlbum |-> "default-album", Schedule |-> sch] :
        sch \in UNION { [1..n -> EntryPool] : n \in 0..MaxEntries } }

\* Boundaries at the start of the year and around the end of February, where
\* ordinals coincide ("02-30" and "03-01") or a range has a single day.
BoundaryStrings ==
    { Str("0","1","0","1"), Str("0","2","2","9"), Str("0","2","3","0"),
      Str("0","2","3","1"), Str("0","3","0","1") }

RangeConfigs ==
    { [DefaultAlbum |-> "default-album",
       Schedule     |-> <<Entry("range", "range-album", a, b)>>] :
        a \in BoundaryStrings, b \in BoundaryStrings }

\* Names and albums for the config validation: blank ones and others.
Texts == { <<>>, <<" ">>, <<"x">>, <<" ", "x", "\t">> }

\* Every NN-NN string with a month up to 29 and a day up to 49, and strings of
\* other shapes.
DateInputs ==
    { Str(a, b, c, d) : a \in {"0", "1", "2"}, b \in Digits,
                        c \in {"0", "1", "2", "3", "4"}, d \in Digits }
      \cup { <<>>, <<"1", "-", "1">>, <<"0", "1", "-", "1">>, <<"1", "-", "0", "1">>,
             <<"0", "1", "0", "1">>, <<"0", "1", "/", "0", "1">>,
             <<"0", "1", "-", "0", "1", " ">>, <<" ", "0", "1", "-", "0", "1">>,
             <<"0", "1", "-", "0", "1", "\n">>, <<"+", "1", "-", "0", "1">>,
             <<"0", "1", "-", "0", "x">>, <<"0", "0", "1", "-", "0", "1">>,
             <<"2", "0", "2", "4", "-", "1", "1", "-", "1", "5">> }

FewDates ==
    { Str("0","1","0","1"), Str("0","2","2","9"), Str("0","2","3","0"),
      <<"1", "-", "1">> }

ValidateEntries ==
    { Entry(n, a, s, e) : n \in Texts, a \in Texts, s \in FewDates, e \in FewDates }
      \cup { Entry(<<"x">>, <<"x">>, s, Str("0","1","0","1")) : s \in DateInputs }
      \cup { Entry(<<"x">>, <<"x">>, Str("0","1","0","1"), s) : s \in DateInputs }

KioskURLs ==
    { "", " ", "https://kiosk.example.com", "ftp://kiosk.example.com", "http://",
      "://kiosk" }

FullConfig(url, album, port, params, schedule) ==
    [KioskURL |-> url, DefaultAlbum |-> album, Port |-> port,
     PassthroughParams |-> params, Schedule |-> schedule]

\* Configs whose only fault, if any, is in one schedule entry; configs of two
\* entries; and configs with a valid entry and any fault in another field.
ValidateConfigs ==
    { FullConfig("https://kiosk.example.com", <<"x">>, 8080, <<>>, <<e>>) :
        e \in ValidateEntries }
      \cup { FullConfig("https://kiosk.example.com", <<"x">>, 8080, <<>>,
                        <<Entry(<<"x">>, <<"x">>, s1, s1), Entry(<<"y">>, <<"y">>, s2, e2)>>) :
               s1 \in FewDates, s2 \in FewDates, e2 \in FewDates }
      \cup { FullConfig(u, a, p, <<>>,
                        <<Entry(<<"x">>, <<"x">>, Str("0","1","0","1"), Str("0","2","2","9"))>>) :
               u \in KioskURLs, a \in Texts, p \in {0, 8080, 65536} }

\* Parameter names for SanitizeParam: every string up to MaxParamLen
\* characters of letters, a digit, the two signs, a blank and a bracket.
ParamAlphabet == {"a", "Z", "0", "_", "-", " ", "<"}

ParamStrings == UNION { [1..n -> ParamAlphabet] : n \in 0..MaxParamLen }

FewParams == { <<"a">>, <<" ", "a", " ">>, <<"<">>, <<"Z", "0">> }

ParamConfigs ==
    { FullConfig("https://kiosk.example.com", "default-album", 8080, <<p>>, <<>>) :
        p \in ParamStrings }
      \cup { FullConfig("https://kiosk.example.com", "default-album", 8080, <<p, q>>, <<>>) :
               p \in FewParams, q \in FewParams }

\* Requests of GET /: up to two parameters, of an allow-listed name with an
\* empty or a non-empty value, of the album parameter, or of another name.
RequestParams ==
    { << <<"t">>, "" >>, << <<"t">>, "fade" >>, << <<"t">>, "slide" >>,
      << albumParam, "mine" >>, << <<"e">>, "x" >> }

Requests ==
    { <<>> } \cup { <<p>> : p \in RequestParams }
             \cup { <<p, q>> : p \in RequestParams, q \in RequestParams }

PassthroughLists ==
    { <<>>, << <<"t">> >>, << <<" ", "t", " ">> >>, << <<"t">>, albumParam >>,
      << <<"e", "<">>, <<"t">> >>, << albumParam >> }

ServerSchedule ==
    << Entry("special", "special-album", Str("1","2","2","0"), Str("1","2","2","6")),
       Entry("christmas", "christmas-album", Str("1","1","1","5"), Str("0","1","0","1")) >>

ServerConfigs ==
    { FullConfig(u, "default-album", 8080, l, ServerSchedule) :
        u \in { "https://kiosk.example.com",
                "https://kiosk.example.com?album=old&t=slide", "://kiosk" },
        l \in PassthroughLists }

Handlers == {"h1", "h2"}

\* A handleRedirect call that has not received its request.
Idle ==
    [pc |-> "idle", query |-> <<>>, album |-> "", albumDate |-> <<>>,
     scheduleName |-> "", redirectURL |-> <<>>, status |-> 0, location |-> <<>>,
     body |-> <<>>]

\* Schedules for the test command: a range of the leap day alone, one of the
\* last day of April alone, and none.
TestConfigs ==
    { [DefaultAlbum |-> "default-album", Schedule |-> sch] :
        sch \in { <<>>,
                  << Entry("leapday", "leapday-album",
                           Str("0","2","2","9"), Str("0","2","2","9")),
                     Entry("april30", "april30-album",
                           Str("0","4","3","0"), Str("0","4","3","0")) >> } }

Alphabet == {"0", "1", "2", "3", "-", "+", "x"}

Strings == UNION { [1..n -> Alphabet] : n \in 0..MaxLen }

\* The (month, day) pairs ParseMonthDay can return with a nil error.
AcceptedPairs == { <<m, d>> : m \in 1..12, d \in 1..31 }

\* The variables of the other operations before any of them has run.
InitExt ==
    /\ getRes = <<>>
    /\ entryRes = <<>>
    /\ cfgRes = <<>>
    /\ sanRes = <<>>
    /\ srv = <<>>
    /\ handlers = <<>>
    /\ redirectsTotal = <<>>
    /\ currentSchedule = <<>>
    /\ testRes = <<>>
    /\ serve = <<>>

----------------------------------------------------------------------------
(* Specification of the scheduler's life: New, then lookups as days pass *)

Init ==
    /\ pc = "start"
    /\ cfg \in Configs
    /\ sched = <<>>
    /\ newErr = <<>>
    /\ now = [year |-> MinYear, month |-> 1, day |-> 1]
    /\ albumRes = <<>>
    /\ nameRes = <<>>
    /\ input = <<>>
    /\ parsed = <<>>
    /\ pairs = <<>>
    /\ ords = <<>>
    /\ InitExt

CallNew ==
    /\ pc = "start"
    /\ LET r == New(cfg) IN
         /\ sched' = r.s
         /\ newErr' = r.err
         /\ pc' = IF r.err = <<>> THEN "ready" ELSE "failed"
    /\ UNCHANGED <<cfg, now, albumRes, nameRes, input, parsed, pairs, ords>>
    /\ UNCHANGED ext

\* GetCurrentAlbum as a self-organising list: the range that matched is moved
\* to the front of s.ranges.
GetCurrentAlbumMoveToFront ==
    /\ pc = "ready"
    /\ LET s == sched[1]
           i == AlbumLoopIndex(s, now)
       IN  /\ albumRes' = <<[date |-> now, idx |-> i, album |-> GetAlbumForDate(s, now)]>>
           /\ sched' = IF i = 0 THEN sched
                       ELSE <<[s EXCEPT !.ranges =
                                 <<s.ranges[i]>> \o SubSeq(s.ranges, 1, i - 1)
                                   \o SubSeq(s.ranges, i + 1, Len(s.ranges))]>>
    /\ UNCHANGED <<pc, cfg, newErr, now, nameRes, input, parsed, pairs, ords>>
    /\ UNCHANGED ext

GetCurrentAlbum ==
    /\ pc = "ready"
    /\ albumRes' = <<[date  |-> now,
                      idx   |-> AlbumLoopIndex(sched[1], now),
                      album |-> GetAlbumForDate(sched[1], now)]>>
    /\ UNCHANGED <<pc, cfg, sched, newErr, now, nameRes, input, parsed, pairs, ords>>
    /\ UNCHANGED ext

GetCurrentScheduleName ==
    /\ pc = "ready"
    /\ nameRes' = <<[date |-> now,
                     idx  |-> NameLoopIndex(sched[1], now),
                     name |-> GetScheduleNameForDate(sched[1], now)]>>
    /\ UNCHANGED <<pc, cfg, sched, newErr, now, albumRes, input, parsed, pairs, ords>>
    /\ UNCHANGED ext

\* Midnight: the callers of the previous day have returned.
Tick ==
    /\ pc = "ready"
    /\ NextDay(now).year <= MaxYear
    /\ now' = NextDay(now)
    /\ albumRes' = <<>>
    /\ nameRes' = <<>>
    /\ UNCHANGED <<pc, cfg, sched, newErr, input, parsed, pairs, ords>>
    /\ UNCHANGED ext

Next == CallNew \/ GetCurrentAlbum \/ GetCurrentScheduleName \/ Tick

Spec == Init /\ [][Next]_vars

----------------------------------------------------------------------------
(* Specification of all six read methods of a Scheduler, called in any order *)

CallGetDefaultAlbum ==
    /\ pc = "ready"
    /\ getRes' = <<[op |-> "GetDefaultAlbum", val |-> GetDefaultAlbum(sched[1])]>>
    /\ UNCHANGED <<pc, cfg, sched, newErr, now, albumRes, nameRes, input, parsed,
                   pairs, ords, confVars, srvVars, mainVars>>

CallGetScheduleCount ==
    /\ pc = "ready"
    /\ getRes' = <<[op |-> "GetScheduleCount", val |-> GetScheduleCount(sched[1])]>>
    /\ UNCHANGED <<pc, cfg, sched, newErr, now, albumRes, nameRes, input, parsed,
                   pairs, ords, confVars, srvVars, mainVars>>

\* The lookups are followed through the days of one year.
InitLookups ==
    /\ pc = "start"
    /\ cfg \in Configs
    /\ sched = <<>>
    /\ newErr = <<>>
    /\ now = [year |-> MaxYear, month |-> 1, day |-> 1]
    /\ albumRes = <<>>
    /\ nameRes = <<>>
    /\ input = <<>>
    /\ parsed = <<>>
    /\ pairs = <<>>
    /\ ords = <<>>
    /\ InitExt

NextLookups ==
    \/ CallNew
    \/ GetCurrentAlbum
    \/ GetCurrentScheduleName
    \/ CallGetDefaultAlbum
    \/ CallGetScheduleCount
    \/ Tick

SpecLookups == InitLookups /\ [][NextLookups]_vars

----------------------------------------------------------------------------
(* Specification of the config validation *)

InitValidate ==
    /\ pc = "start"
    /\ cfg \in ValidateConfigs
    /\ sched = <<>>
    /\ newErr = <<>>
    /\ now = [year |-> MinYear, month |-> 1, day |-> 1]
    /\ albumRes = <<>>
    /\ nameRes = <<>>
    /\ input = <<>>
    /\ parsed = <<>>
    /\ pairs = <<>>
    /\ ords = <<>>
    /\ InitExt

CallScheduleEntryValidate ==
    /\ pc = "start"
    /\ \E i \in 1..Len(cfg.Schedule) :
         entryRes' = <<[i |-> i, err |-> ScheduleEntryValidate(cfg.Schedule[i])]>>
    /\ UNCHANGED <<pc, cfg, sched, newErr, now, albumRes, nameRes, input, parsed,
                   pairs, ords, getRes, cfgRes, sanRes, srvVars, mainVars>>

CallConfigValidate ==
    /\ pc = "start"
    /\ cfgRes' = <<[err |-> ConfigValidate(cfg)]>>
    /\ UNCHANGED <<pc, cfg, sched, newErr, now, albumRes, nameRes, input, parsed,
                   pairs, ords, getRes, entryRes, sanRes, srvVars, mainVars>>

NextValidate ==
    \/ CallScheduleEntryValidate
    \/ CallConfigValidate

SpecValidate == InitValidate /\ [][NextValidate]_vars

----------------------------------------------------------------------------
(* Specification of Load followed by scheduler.New, as runServe calls them *)

NextLoad ==
    \/ CallScheduleEntryValidate
    \/ CallConfigValidate
    \/ CallNew

SpecLoad == InitValidate /\ [][NextLoad]_vars

----------------------------------------------------------------------------
(* Specification of the test command with any --date, in any year *)

InitTest ==
    /\ pc = "start"
    /\ cfg \in TestConfigs
    /\ sched = <<>>
    /\ newErr = <<>>
    /\ now \in { [year |-> y, month |-> 6, day |-> 15] : y \in MinYear..MaxYear }
    /\ albumRes = <<>>
    /\ nameRes = <<>>
    /\ input = <<>>
    /\ parsed = <<>>
    /\ pairs = <<>>
    /\ ords = <<>>
    /\ InitExt

CallRunTest ==
    /\ pc = "ready"
    /\ testRes = <<>>
    /\ \E dateStr \in DateInputs : testRes' = <<runTest(sched[1], dateStr, now)>>
    /\ UNCHANGED <<pc, cfg, sched, newErr, now, albumRes, nameRes, input, parsed,
                   pairs, ords, getRes, confVars, srvVars, serve>>

NextTest ==
    \/ CallNew
    \/ CallRunTest

SpecTest == InitTest /\ [][NextTest]_vars

----------------------------------------------------------------------------
(* Specification of SanitizeParam and of the allow-list server.New builds *)

InitSanitize ==
    /\ pc = "start"
    /\ cfg \in ParamConfigs
    /\ sched = <<>>
    /\ newErr = <<>>
    /\ now = [year |-> MinYear, month |-> 1, day |-> 1]
    /\ albumRes = <<>>
    /\ nameRes = <<>>
    /\ input = <<>>
    /\ parsed = <<>>
    /\ pairs = <<>>
    /\ ords = <<>>
    /\ InitExt

CallSanitizeParam ==
    /\ \E i \in 1..Len(cfg.PassthroughParams) :
         LET r == SanitizeParam(cfg.PassthroughParams[i])
         IN  sanRes' = <<[i |-> i, param |-> r.param, valid |-> r.valid]>>
    /\ UNCHANGED <<pc, cfg, sched, newErr, now, albumRes, nameRes, input, parsed,
                   pairs, ords, getRes, entryRes, cfgRes, srvVars, mainVars>>

\* runServe: server.New after scheduler.New has succeeded.
CallServerNew ==
    /\ pc = "ready"
    /\ srv = <<>>
    /\ srv' = <<ServerNew(cfg, sched[1])>>
    /\ UNCHANGED <<pc, cfg, sched, newErr, now, albumRes, nameRes, input, parsed,
                   pairs, ords, getRes, confVars, handlers, redirectsTotal,
                   currentSchedule, mainVars>>

NextSanitize ==
    \/ CallNew
    \/ CallServerNew
    \/ CallSanitizeParam

SpecSanitize == InitSanitize /\ [][NextSanitize]_vars

----------------------------------------------------------------------------
(* Specification of GET /: handleRedirect step by step, as the days pass *)

schedVars == <<pc, cfg, sched, newErr, now, albumRes, nameRes, input, parsed, pairs,
               ords, getRes, confVars, mainVars>>

\* The router hands a request to a handler.
Receive ==
    /\ srv # <<>>
    /\ \E h \in DOMAIN handlers, query \in Requests :
         /\ handlers[h].pc = "idle"
         /\ handlers' = [handlers EXCEPT ![h].pc = "album", ![h].query = query]
    /\ UNCHANGED <<schedVars, srv, redirectsTotal, currentSchedule>>

\* The router hands a request without parameters to a handler.
ReceivePlain ==
    /\ srv # <<>>
    /\ \E h \in DOMAIN handlers :
         /\ handlers[h].pc = "idle"
         /\ handlers' = [handlers EXCEPT ![h].pc = "album", ![h].query = <<>>]
    /\ UNCHANGED <<schedVars, srv, redirectsTotal, currentSchedule>>

\* album := s.scheduler.GetCurrentAlbum()
HandleAlbum ==
    /\ \E h \in DOMAIN handlers :
         /\ handlers[h].pc = "album"
         /\ handlers' = [handlers EXCEPT
                           ![h].pc = "name",
                           ![h].album = GetAlbumForDate(srv[1].scheduler, now),
                           ![h].albumDate = <<now>>]
    /\ UNCHANGED <<schedVars, srv, redirectsTotal, currentSchedule>>

\* scheduleName := s.scheduler.GetCurrentScheduleName()
HandleName ==
    /\ \E h \in DOMAIN handlers :
         /\ handlers[h].pc = "name"
         /\ handlers' = [handlers EXCEPT
                           ![h].pc = "build",
                           ![h].scheduleName =
                               GetScheduleNameForDate(srv[1].scheduler, now)]
    /\ UNCHANGED <<schedVars, srv, redirectsTotal, currentSchedule>>

\* s.buildRedirectURL(r, album), and the 500 answer to its error.
HandleBuild ==
    /\ \E h \in DOMAIN handlers :
         /\ handlers[h].pc = "build"
         /\ LET r == buildRedirectURL(srv[1], handlers[h].query, handlers[h].album)
            IN  handlers' =
                  IF r.err # <<>>
                    THEN [handlers EXCEPT ![h].pc = "done", ![h].status = 500]
                    ELSE [handlers EXCEPT ![h].pc = "inc", ![h].redirectURL = r.url]
    /\ UNCHANGED <<schedVars, srv, redirectsTotal, currentSchedule>>

\* redirectsTotal.WithLabelValues(scheduleName).Inc()
HandleInc ==
    /\ \E h \in DOMAIN handlers :
         /\ handlers[h].pc = "inc"
         /\ redirectsTotal' = Inc(redirectsTotal, handlers[h].scheduleName)
         /\ handlers' = [handlers EXCEPT ![h].pc = "reset"]
    /\ UNCHANGED <<schedVars, srv, currentSchedule>>

\* updateCurrentScheduleMetric: currentSchedule.Reset()
HandleReset ==
    /\ \E h \in DOMAIN handlers :
         /\ handlers[h].pc = "reset"
         /\ currentSchedule' = Reset(currentSchedule)
         /\ handlers' = [handlers EXCEPT ![h].pc = "set"]
    /\ UNCHANGED <<schedVars, srv, redirectsTotal>>

\* updateCurrentScheduleMetric: currentSchedule.WithLabelValues(active).Set(1)
HandleSet ==
    /\ \E h \in DOMAIN handlers :
         /\ handlers[h].pc = "set"
         /\ currentSchedule' = Set(currentSchedule, handlers[h].scheduleName, 1)
         /\ handlers' = [handlers EXCEPT ![h].pc = "redirect"]
    /\ UNCHANGED <<schedVars, srv, redirectsTotal>>

\* http.Redirect(w, r, redirectURL, http.StatusFound)
HandleRedirect ==
    /\ \E h \in DOMAIN handlers :
         /\ handlers[h].pc = "redirect"
         /\ handlers' = [handlers EXCEPT ![h].pc = "done", ![h].status = 302,
                                         ![h].location = handlers[h].redirectURL]
    /\ UNCHANGED <<schedVars, srv, redirectsTotal, currentSchedule>>

\* Midnight while the server runs: the handlers keep what they have read.
Midnight ==
    /\ srv # <<>>
    /\ NextDay(now).year <= MaxYear
    /\ now' = NextDay(now)
    /\ UNCHANGED <<pc, cfg, sched, newErr, albumRes, nameRes, input, parsed, pairs,
                   ords, ext>>

\* One handler, any request, any allow-list, any kiosk URL; the clock starts on
\* the last day of the first range.
InitRedirect ==
    /\ pc = "start"
    /\ cfg \in ServerConfigs
    /\ sched = <<>>
    /\ newErr = <<>>
    /\ now = [year |-> MaxYear, month |-> 12, day |-> 26]
    /\ albumRes = <<>>
    /\ nameRes = <<>>
    /\ input = <<>>
    /\ parsed = <<>>
    /\ pairs = <<>>
    /\ ords = <<>>
    /\ getRes = <<>>
    /\ entryRes = <<>>
    /\ cfgRes = <<>>
    /\ sanRes = <<>>
    /\ srv = <<>>
    /\ handlers = [h \in {"h1"} |-> Idle]
    /\ redirectsTotal = <<>>
    /\ currentSchedule = <<>>
    /\ testRes = <<>>
    /\ serve = <<>>

NextRedirect ==
    \/ CallNew
    \/ CallServerNew
    \/ Midnight
    \/ Receive
    \/ HandleAlbum
    \/ HandleName
    \/ HandleBuild
    \/ HandleInc
    \/ HandleReset
    \/ HandleSet
    \/ HandleRedirect

SpecRedirect == InitRedirect /\ [][NextRedirect]_vars

\* The router hands a GET /healthz to a handler.
ReceiveHealth ==
    /\ srv # <<>>
    /\ \E h \in DOMAIN handlers :
         /\ handlers[h].pc = "idle"
         /\ handlers' = [handlers EXCEPT ![h].pc = "healthName"]
    /\ UNCHANGED <<schedVars, srv, redirectsTotal, currentSchedule>>

\* handleHealth: "schedule": s.scheduler.GetCurrentScheduleName()
HealthName ==
    /\ \E h \in DOMAIN handlers :
         /\ handlers[h].pc = "healthName"
         /\ handlers' = [handlers EXCEPT
                           ![h].pc = "healthAlbum",
                           ![h].scheduleName =
                               GetScheduleNameForDate(srv[1].scheduler, now)]
    /\ UNCHANGED <<schedVars, srv, redirectsTotal, currentSchedule>>

\* handleHealth: "album": s.scheduler.GetCurrentAlbum(), and the 200 answer
\* with the response map as its body.
HealthAlbum ==
    /\ \E h \in DOMAIN handlers :
         /\ handlers[h].pc = "healthAlbum"
         /\ LET a == GetAlbumForDate(srv[1].scheduler, now)
            IN  handlers' = [handlers EXCEPT
                               ![h].pc = "done",
                               ![h].album = a,
                               ![h].albumDate = <<now>>,
                               ![h].status = 200,
                               ![h].body = <<[status   |-> "ok",
                                             schedule |-> handlers[h].scheduleName,
                                             album    |-> a]>>]
    /\ UNCHANGED <<schedVars, srv, redirectsTotal, currentSchedule>>

\* One handler, GET / without parameters or GET /healthz, one config.
InitRoutes ==
    /\ pc = "start"
    /\ cfg = FullConfig("https://kiosk.example.com", "default-album", 8080, <<>>,
                        ServerSchedule)
    /\ sched = <<>>
    /\ newErr = <<>>
    /\ now = [year |-> MaxYear, month |-> 12, day |-> 26]
    /\ albumRes = <<>>
    /\ nameRes = <<>>
    /\ input = <<>>
    /\ parsed = <<>>
    /\ pairs = <<>>
    /\ ords = <<>>
    /\ getRes = <<>>
    /\ entryRes = <<>>
    /\ cfgRes = <<>>
    /\ sanRes = <<>>
    /\ srv = <<>>
    /\ handlers = [h \in {"h1"} |-> Idle]
    /\ redirectsTotal = <<>>
    /\ currentSchedule = <<>>
    /\ testRes = <<>>
    /\ serve = <<>>

NextRoutes ==
    \/ CallNew
    \/ CallServerNew
    \/ Midnight
    \/ ReceivePlain
    \/ HandleAlbum
    \/ HandleName
    \/ HandleBuild
    \/ HandleInc
    \/ HandleReset
    \/ HandleSet
    \/ HandleRedirect
    \/ ReceiveHealth
    \/ HealthName
    \/ HealthAlbum

SpecRoutes == InitRoutes /\ [][NextRoutes]_vars

\* Two handlers, requests without parameters, one config.
InitGauge ==
    /\ pc = "start"
    /\ cfg = FullConfig("https://kiosk.example.com", "default-album", 8080, <<>>,
                        ServerSchedule)
    /\ sched = <<>>
    /\ newErr = <<>>
    /\ now = [year |-> MaxYear, month |-> 12, day |-> 26]
    /\ albumRes = <<>>
    /\ nameRes = <<>>
    /\ input = <<>>
    /\ parsed = <<>>
    /\ pairs = <<>>
    /\ ords = <<>>
    /\ getRes = <<>>
    /\ entryRes = <<>>
    /\ cfgRes = <<>>
    /\ sanRes = <<>>
    /\ srv = <<>>
    /\ handlers = [h \in Handlers |-> Idle]
    /\ redirectsTotal = <<>>
    /\ currentSchedule = <<>>
    /\ testRes = <<>>
    /\ serve = <<>>

NextGauge ==
    \/ CallNew
    \/ CallServerNew
    \/ Midnight
    \/ ReceivePlain
    \/ HandleAlbum
    \/ HandleName
    \/ HandleBuild
    \/ HandleInc
    \/ HandleReset
    \/ HandleSet
    \/ HandleRedirect

SpecGauge == InitGauge /\ [][NextGauge]_vars

----------------------------------------------------------------------------
(* Specification of StartWithContext, its listener goroutine and the signal *)
(* goroutine of runServe                                                    *)

restVars == <<pc, cfg, sched, newErr, now, albumRes, nameRes, input, parsed, pairs,
              ords, getRes, confVars, srvVars, testRes>>

\* The errors net.Listen can fail with.
ListenErrors == {"address already in use", "permission denied"}

InitServe ==
    /\ pc = "start"
    /\ cfg = FullConfig("https://kiosk.example.com", "default-album", 8080, <<>>,
                        ServerSchedule)
    /\ sched = <<>>
    /\ newErr = <<>>
    /\ now = [year |-> MaxYear, month |-> 12, day |-> 26]
    /\ albumRes = <<>>
    /\ nameRes = <<>>
    /\ input = <<>>
    /\ parsed = <<>>
    /\ pairs = <<>>
    /\ ords = <<>>
    /\ InitExt

\* runServe calls srv.StartWithContext(ctx): the http.Server and errCh are
\* made and the listener goroutine is started; the signal goroutine waits.
\* first and ready record the order of the events for the properties.
CallStartWithContext ==
    /\ srv # <<>>
    /\ serve = <<>>
    /\ serve' = <<[main |-> "start", listener |-> "start", signal |-> "waiting",
                   ctxDone |-> FALSE, errCh |-> <<>>, inShutdown |-> FALSE,
                   active |-> FALSE, listenErr |-> <<>>, ret |-> <<>>,
                   shutdownCalled |-> FALSE, first |-> "none", ready |-> "unknown"]>>
    /\ UNCHANGED restVars

\* SIGINT or SIGTERM arrives on sigCh while the process runs.
Signal ==
    /\ serve # <<>>
    /\ serve[1].main # "returned"
    /\ serve[1].signal = "waiting"
    /\ serve' = <<[serve[1] EXCEPT !.signal = "received"]>>
    /\ UNCHANGED restVars

\* The signal goroutine: <-sigCh, cancel().  A StartWithContext that waits in
\* its select is woken with the case <-ctx.Done().
SignalCancel ==
    /\ serve # <<>>
    /\ serve[1].signal = "received"
    /\ serve' = <<[serve[1] EXCEPT
                     !.signal = "cancelled",
                     !.ctxDone = TRUE,
                     !.first = IF @ = "none" THEN "cancel" ELSE @,
                     !.main = IF @ = "parked" THEN "doneCase" ELSE @]>>
    /\ UNCHANGED restVars

\* srv.ListenAndServe() up to net.Listen: ErrServerClosed after Shutdown, an
\* error of net.Listen, or a listening server.
Listen ==
    /\ serve # <<>>
    /\ serve[1].listener = "start"
    /\ \/ /\ serve[1].inShutdown
          /\ serve' = <<[serve[1] EXCEPT !.listener = "closed"]>>
       \/ /\ ~serve[1].inShutdown
          /\ \E e \in ListenErrors :
               serve' = <<[serve[1] EXCEPT
                             !.listener = "failed",
                             !.listenErr = <<e>>,
                             !.first = IF @ = "none" THEN "fail" ELSE @]>>
       \/ /\ ~serve[1].inShutdown
          /\ serve' = <<[serve[1] EXCEPT !.listener = "serving"]>>
    /\ UNCHANGED restVars

\* A connection is accepted and a request is being served.
Accept ==
    /\ serve # <<>>
    /\ serve[1].listener = "serving"
    /\ ~serve[1].inShutdown
    /\ ~serve[1].active
    /\ serve' = <<[serve[1] EXCEPT !.active = TRUE]>>
    /\ UNCHANGED restVars

\* The connection becomes idle.
ConnectionIdle ==
    /\ serve # <<>>
    /\ serve[1].active
    /\ serve' = <<[serve[1] EXCEPT !.active = FALSE]>>
    /\ UNCHANGED restVars

\* srv.ListenAndServe() returns ErrServerClosed once Shutdown has closed the
\* listener.
ServeClosed ==
    /\ serve # <<>>
    /\ serve[1].listener = "serving"
    /\ serve[1].inShutdown
    /\ serve' = <<[serve[1] EXCEPT !.listener = "closed"]>>
    /\ UNCHANGED restVars

\* The listener goroutine: errCh <- err.  The send needs room in the buffer
\* or a StartWithContext waiting in its select, which takes the error.
ListenerSend ==
    /\ serve # <<>>
    /\ serve[1].listener = "failed"
    /\ \/ /\ serve[1].main = "parked"
          /\ serve' = <<[serve[1] EXCEPT !.listener = "exited",
                                         !.main = "returned",
                                         !.ret = serve[1].listenErr]>>
       \/ /\ serve[1].main # "parked"
          /\ Len(serve[1].errCh) < errChCap
          /\ serve' = <<[serve[1] EXCEPT
                           !.listener = "exited",
                           !.errCh = Append(@, serve[1].listenErr[1])]>>
    /\ UNCHANGED restVars

\* The listener goroutine ends without a send: err == http.ErrServerClosed.
ListenerExit ==
    /\ serve # <<>>
    /\ serve[1].listener = "closed"
    /\ serve' = <<[serve[1] EXCEPT !.listener = "exited"]>>
    /\ UNCHANGED restVars

\* StartWithContext reaches its select with nothing ready and waits.
SelectPark ==
    /\ serve # <<>>
    /\ serve[1].main = "start"
    /\ ~serve[1].ctxDone
    /\ serve[1].errCh = <<>>
    /\ serve' = <<[serve[1] EXCEPT !.main = "parked", !.ready = "none"]>>
    /\ UNCHANGED restVars

\* StartWithContext reaches its select with a case ready: any ready case is
\* chosen.
SelectReady ==
    /\ serve # <<>>
    /\ serve[1].main = "start"
    /\ LET isReady == IF serve[1].ctxDone /\ serve[1].errCh # <<>> THEN "both"
                      ELSE IF serve[1].ctxDone THEN "done" ELSE "err"
       IN  \/ /\ serve[1].ctxDone
              /\ serve' = <<[serve[1] EXCEPT !.main = "doneCase", !.ready = isReady]>>
           \/ /\ serve[1].errCh # <<>>
              /\ serve' = <<[serve[1] EXCEPT !.main = "returned",
                                             !.ready = isReady,
                                             !.ret = <<Head(serve[1].errCh)>>,
                                             !.errCh = Tail(@)]>>
    /\ UNCHANGED restVars

\* case <-ctx.Done(): srv.Shutdown(shutdownCtx) is called and closes the
\* listener.
ShutdownCall ==
    /\ serve # <<>>
    /\ serve[1].main = "doneCase"
    /\ serve' = <<[serve[1] EXCEPT !.main = "shutdown", !.shutdownCalled = TRUE,
                                   !.inShutdown = TRUE]>>
    /\ UNCHANGED restVars

\* Shutdown waiting for the connections to be idle with no deadline.
ShutdownReturnNoDeadline ==
    /\ serve # <<>>
    /\ serve[1].main = "shutdown"
    /\ ~serve[1].active
    /\ serve' = <<[serve[1] EXCEPT !.main = "returned", !.ret = <<"nil">>]>>
    /\ UNCHANGED restVars

\* srv.Shutdown returns: nil when the connections are idle, the error of
\* shutdownCtx when its deadline passes first.
ShutdownReturn ==
    /\ serve # <<>>
    /\ serve[1].main = "shutdown"
    /\ serve' = <<[serve[1] EXCEPT
                     !.main = "returned",
                     !.ret = IF serve[1].active THEN <<"context deadline exceeded">>
                                                ELSE <<"nil">>]>>
    /\ UNCHANGED restVars

NextServe ==
    \/ CallNew
    \/ CallServerNew
    \/ CallStartWithContext
    \/ Signal
    \/ SignalCancel
    \/ Listen
    \/ Accept
    \/ ConnectionIdle
    \/ ServeClosed
    \/ ListenerSend
    \/ ListenerExit
    \/ SelectPark
    \/ SelectReady
    \/ ShutdownCall
    \/ ShutdownReturn

\* The goroutines take their steps; signals, connections and their ends are
\* up to the environment.
SpecServe ==
    /\ InitServe
    /\ [][NextServe]_vars
    /\ WF_vars(SignalCancel)
    /\ WF_vars(Listen)
    /\ WF_vars(ServeClosed)
    /\ WF_vars(ListenerSend)
    /\ WF_vars(ListenerExit)
    /\ WF_vars(SelectPark)
    /\ WF_vars(SelectReady)
    /\ WF_vars(ShutdownCall)
    /\ WF_vars(ShutdownReturn)

----------------------------------------------------------------------------
(* Specification of a Scheduler with one range between any two boundaries *)

InitRange ==
    /\ pc = "start"
    /\ cfg \in RangeConfigs
    /\ sched = <<>>
    /\ newErr = <<>>
    /\ now = [year |-> MinYear, month |-> 1, day |-> 1]
    /\ albumRes = <<>>
    /\ nameRes = <<>>
    /\ input = <<>>
    /\ parsed = <<>>
    /\ pairs = <<>>
    /\ ords = <<>>
    /\ InitExt

SpecRange == InitRange /\ [][Next]_vars

----------------------------------------------------------------------------
(* Specification of ParseMonthDay on every string up to MaxLen characters *)

InitParse ==
    /\ pc = "start"
    /\ input \in Strings
    /\ parsed = <<>>
    /\ cfg = [DefaultAlbum |-> "default-album", Schedule |-> <<>>]
    /\ sched = <<>>
    /\ newErr = <<>>
    /\ now = [year |-> MinYear, month |-> 1, day |-> 1]
    /\ albumRes = <<>>
    /\ nameRes = <<>>
    /\ pairs = <<>>
    /\ ords = <<>>
    /\ InitExt

CallParseMonthDay ==
    /\ pc = "start"
    /\ parsed' = <<ParseMonthDay(input)>>
    /\ pc' = "done"
    /\ UNCHANGED <<cfg, sched, newErr, now, albumRes, nameRes, input, pairs, ords>>
    /\ UNCHANGED ext

NextParse == CallParseMonthDay

SpecParse == InitParse /\ [][NextParse]_vars

----------------------------------------------------------------------------
(* Specification of monthDayToDOY on every two pairs ParseMonthDay accepts *)

InitDOY ==
    /\ pc = "start"
    /\ pairs \in AcceptedPairs \X AcceptedPairs
    /\ ords = <<>>
    /\ cfg = [DefaultAlbum |-> "default-album", Schedule |-> <<>>]
    /\ sched = <<>>
    /\ newErr = <<>>
    /\ now = [year |-> MinYear, month |-> 1, day |-> 1]
    /\ albumRes = <<>>
    /\ nameRes = <<>>
    /\ input = <<>>
    /\ parsed = <<>>
    /\ InitExt

CallMonthDayToDOY ==
    /\ pc = "start"
    /\ ords' = <<monthDayToDOY(pairs[1][1], pairs[1][2]),
                 monthDayToDOY(pairs[2][1], pairs[2][2])>>
    /\ pc' = "done"
    /\ UNCHANGED <<cfg, sched, newErr, now, albumRes, nameRes, input, parsed, pairs>>
    /\ UNCHANGED ext

NextDOY == CallMonthDayToDOY

SpecDOY == InitDOY /\ [][NextDOY]_vars

----------------------------------------------------------------------------
(* Properties of the lookups (specification Spec) *)

\* The ordinals of a stored range's boundaries and of a calendar date.
StartDOY(r) == monthDayToDOY(r.startMonth, r.startDay)

EndDOY(r) == monthDayToDOY(r.endMonth, r.endDay)

DateDOY(t) == monthDayToDOY(t.month, t.day)

\* The match predicate as specified: inclusive on both ends, the union of two
\* intervals when the end ordinal is smaller than the start ordinal.
Matches(doy, r) ==
    LET start == StartDOY(r)
        end   == EndDOY(r)
    IN  IF end < start
          THEN doy >= start \/ doy <= end
          ELSE start <= doy /\ doy <= end

MatchingRanges(s, t) == { i \in 1..Len(s.ranges) : Matches(DateDOY(t), s.ranges[i]) }

LowestMatch(s, t) ==
    CHOOSE i \in MatchingRanges(s, t) : \A j \in MatchingRanges(s, t) : i <= j

\* The answers recorded in this state, as <<date, index at which the loop returned>>.
Answers ==
    { <<a.date, a.idx>> : a \in {albumRes[k] : k \in 1..Len(albumRes)} }
      \cup { <<a.date, a.idx>> : a \in {nameRes[k] : k \in 1..Len(nameRes)} }

\* C1: whenever a lookup has answered for a date that some range matches, the
\* album (the name) it returned is that of the lowest-index matching range of
\* the Scheduler, whatever later ranges match as well.
C1_FirstMatchWins ==
    /\ albumRes # <<>> /\ MatchingRanges(sched[1], albumRes[1].date) # {}
         => albumRes[1].album
              = sched[1].ranges[LowestMatch(sched[1], albumRes[1].date)].album
    /\ nameRes # <<>> /\ MatchingRanges(sched[1], nameRes[1].date) # {}
         => nameRes[1].name
              = sched[1].ranges[LowestMatch(sched[1], nameRes[1].date)].name

\* A narrow range declared before a wide wrapping one: both match the date and
\* the lookups answered with the narrow one.
C1_Witness ==
    /\ albumRes # <<>> /\ nameRes # <<>>
    /\ Len(sched[1].ranges) = 2
    /\ MatchingRanges(sched[1], now) = {1, 2}
    /\ sched[1].ranges[2].wrapsYear /\ ~sched[1].ranges[1].wrapsYear
    /\ sched[1].ranges[1].album # sched[1].ranges[2].album
    /\ albumRes[1].album = sched[1].ranges[1].album
    /\ nameRes[1].name = sched[1].ranges[1].name

\* C2: for every range whose end ordinal is not smaller than its start ordinal,
\* dateInRange holds of a date exactly when startDOY <= DOY(date) <= endDOY: a
\* lookup that returned at that range saw a date inside the closed interval, and
\* a lookup for a date inside it returned at that range or at an earlier one.
C2_NonWrappingInclusive ==
    sched # <<>> =>
      \A i \in 1..Len(sched[1].ranges) :
        LET r     == sched[1].ranges[i]
            start == StartDOY(r)
            end   == EndDOY(r)
            today == DateDOY(now)
        IN
        end >= start =>
          /\ dateInRange(today, r) <=> (start <= today /\ today <= end)
          /\ \A a \in Answers :
               LET doy    == DateDOY(a[1])
                   inside == start <= doy /\ doy <= end
               IN  /\ a[2] = i => inside
                   /\ inside => a[2] \in 1..i

\* The last day of a non-wrapping range is answered with that range, its only one.
C2_Witness ==
    /\ albumRes # <<>>
    /\ Len(sched[1].ranges) = 1
    /\ EndDOY(sched[1].ranges[1]) > StartDOY(sched[1].ranges[1])
    /\ DateDOY(albumRes[1].date) = EndDOY(sched[1].ranges[1])
    /\ albumRes[1].idx = 1
    /\ albumRes[1].album = sched[1].ranges[1].album

\* C3: for every range whose end ordinal is smaller than its start ordinal,
\* dateInRange holds of a date exactly when DOY(date) >= startDOY or
\* DOY(date) <= endDOY, so no date strictly between end and start matches: a
\* lookup that returned at that range saw such a date, and a lookup for such a
\* date returned at that range or at an earlier one.
C3_WrappingInclusive ==
    sched # <<>> =>
      \A i \in 1..Len(sched[1].ranges) :
        LET r     == sched[1].ranges[i]
            start == StartDOY(r)
            end   == EndDOY(r)
            today == DateDOY(now)
        IN
        end < start =>
          /\ dateInRange(today, r) <=> (today >= start \/ today <= end)
          /\ (end < today /\ today < start) => ~dateInRange(today, r)
          /\ \A a \in Answers :
               LET doy    == DateDOY(a[1])
                   inside == doy >= start \/ doy <= end
               IN  /\ a[2] = i => inside
                   /\ inside => a[2] \in 1..i

\* The end of a wrapping range, in the year after its start, is answered with
\* that range, its only one.
C3_Witness ==
    /\ albumRes # <<>>
    /\ Len(sched[1].ranges) = 1
    /\ EndDOY(sched[1].ranges[1]) < StartDOY(sched[1].ranges[1])
    /\ albumRes[1].date.year > MinYear
    /\ DateDOY(albumRes[1].date) = EndDOY(sched[1].ranges[1])
    /\ albumRes[1].idx = 1
    /\ albumRes[1].album = sched[1].ranges[1].album

\* C4: a lookup for a date that no range matches (every date when there is no
\* range) answers the configured default album, respectively the name
\* "default"; and on every Scheduler New returned and every date both lookups
\* yield a value, the default album or "default" or an album or a name of the
\* configuration, never an error.
C4_DefaultSelection ==
    /\ albumRes # <<>> /\ MatchingRanges(sched[1], albumRes[1].date) = {}
         => albumRes[1].album = cfg.DefaultAlbum /\ albumRes[1].idx = 0
    /\ nameRes # <<>> /\ MatchingRanges(sched[1], nameRes[1].date) = {}
         => nameRes[1].name = "default" /\ nameRes[1].idx = 0
    /\ sched # <<>>
         => /\ GetAlbumForDate(sched[1], now)
                 \in {cfg.DefaultAlbum} \cup {e.Album : e \in EntryPool}
            /\ GetScheduleNameForDate(sched[1], now)
                 \in {"default"} \cup {e.Name : e \in EntryPool}

\* Both lookups answered the default for a date outside every declared range.
C4_Witness ==
    /\ albumRes # <<>> /\ nameRes # <<>>
    /\ Len(sched[1].ranges) > 0
    /\ MatchingRanges(sched[1], now) = {}
    /\ albumRes[1].album = "default-album"
    /\ nameRes[1].name = "default"

\* C5: when both lookups have answered for the same date, their loops returned
\* at the same range index, and the album and the name are those of that range,
\* or both loops fell through and the answers are the default album and "default".
C5_NameFollowsAlbum ==
    albumRes # <<>> /\ nameRes # <<>> /\ albumRes[1].date = nameRes[1].date
      => /\ albumRes[1].idx = nameRes[1].idx
         /\ albumRes[1].idx # 0
              => /\ albumRes[1].album = sched[1].ranges[albumRes[1].idx].album
                 /\ nameRes[1].name = sched[1].ranges[albumRes[1].idx].name
         /\ albumRes[1].idx = 0
              => /\ albumRes[1].album = sched[1].defaultAlbum
                 /\ nameRes[1].name = "default"

\* Both lookups answered with the second of two ranges, the first not matching.
C5_Witness ==
    /\ albumRes # <<>> /\ nameRes # <<>>
    /\ albumRes[1].date = nameRes[1].date
    /\ albumRes[1].idx = 2 /\ nameRes[1].idx = 2
    /\ sched[1].ranges[1].name # sched[1].ranges[2].name

\* The same month and day in year y, when year y has that day.
InYear(t, y) == [t EXCEPT !.year = y]

YearsWith(t) == { y \in MinYear..MaxYear : t.day <= DaysIn(y, t.month) }

\* C13: what a lookup answered for a date is what GetAlbumForDate and
\* GetScheduleNameForDate yield for the same month and day of every other year,
\* leap or not.
C13_YearIndependent ==
    /\ albumRes # <<>> =>
         \A y \in YearsWith(albumRes[1].date) :
           GetAlbumForDate(sched[1], InYear(albumRes[1].date, y)) = albumRes[1].album
    /\ nameRes # <<>> =>
         \A y \in YearsWith(nameRes[1].date) :
           GetScheduleNameForDate(sched[1], InYear(nameRes[1].date, y)) = nameRes[1].name

\* In a year without February 29, the first day of a range that starts after
\* February is answered with that range.
C13_Witness ==
    /\ albumRes # <<>> /\ nameRes # <<>>
    /\ ~IsLeap(albumRes[1].date.year)
    /\ albumRes[1].date.month > 2
    /\ albumRes[1].idx = 1 /\ nameRes[1].idx = 1
    /\ DateDOY(albumRes[1].date) = StartDOY(sched[1].ranges[1])
    /\ Cardinality(YearsWith(albumRes[1].date)) > 1

----------------------------------------------------------------------------
(* Properties of ParseMonthDay (specification SpecParse) *)

\* NN-NN: two digits, a hyphen, two digits.
ShapeNNNN(s) ==
    /\ Len(s) = 5
    /\ s[3] = "-"
    /\ \A i \in {1, 2, 4, 5} : s[i] \in Digits

TwoDigits(s, i) == 10 * DigitVal(s[i]) + DigitVal(s[i + 1])

\* C6: ParseMonthDay returns a nil error exactly when the string is NN-NN with
\* the month in 1..12 and the day in 1..31, and then it returns those two
\* integers.
C6_AcceptsExactlyNNNN ==
    parsed # <<>> =>
      LET r  == parsed[1]
          ok == /\ ShapeNNNN(input)
                /\ TwoDigits(input, 1) \in 1..12
                /\ TwoDigits(input, 4) \in 1..31
      IN  /\ r.err = <<>> <=> ok
          /\ ok => r.month = TwoDigits(input, 1) /\ r.day = TwoDigits(input, 4)

Hyphens(s) == { i \in 1..Len(s) : s[i] = "-" }

\* The text before and after the hyphen of a string with exactly one.
MonthSeg(s) == SubSeq(s, 1, (CHOOSE i \in Hyphens(s) : TRUE) - 1)

DaySeg(s) == SubSeq(s, (CHOOSE i \in Hyphens(s) : TRUE) + 1, Len(s))

\* A decimal numeral: an optional sign, then one digit or more.
Unsigned(seg) == IF seg # <<>> /\ seg[1] \in {"+", "-"} THEN Tail(seg) ELSE seg

IsNumeral(seg) ==
    /\ Unsigned(seg) # <<>>
    /\ \A i \in 1..Len(Unsigned(seg)) : Unsigned(seg)[i] \in Digits

RECURSIVE DecimalValue(_)
DecimalValue(ds) ==
    IF ds = <<>> THEN 0
    ELSE 10 * DecimalValue(SubSeq(ds, 1, Len(ds) - 1)) + DigitVal(ds[Len(ds)])

NumeralValue(seg) ==
    IF seg[1] = "-" THEN 0 - DecimalValue(Unsigned(seg)) ELSE DecimalValue(Unsigned(seg))

InBounds(seg, lo, hi) == IsNumeral(seg) /\ NumeralValue(seg) \in lo..hi

\* C7: a string without exactly one hyphen yields the format error carrying the
\* whole string; otherwise a month segment that is no numeral or is outside
\* 1..12 yields the invalid-month error carrying the month segment; otherwise a
\* day segment that is no numeral or is outside 1..31 yields the invalid-day
\* error carrying the day segment; and with any error month and day are 0.
C7_ErrorNamesSubCheck ==
    parsed # <<>> =>
      LET r == parsed[1] IN
      /\ Cardinality(Hyphens(input)) # 1
           => r = [month |-> 0, day |-> 0, err |-> Error("invalid format", input)]
      /\ Cardinality(Hyphens(input)) = 1 /\ ~InBounds(MonthSeg(input), 1, 12)
           => r = [month |-> 0, day |-> 0,
                   err |-> Error("invalid month", MonthSeg(input))]
      /\ Cardinality(Hyphens(input)) = 1 /\ InBounds(MonthSeg(input), 1, 12)
           /\ ~InBounds(DaySeg(input), 1, 31)
           => r = [month |-> 0, day |-> 0,
                   err |-> Error("invalid day", DaySeg(input))]
      /\ r.err # <<>> => r.month = 0 /\ r.day = 0

\* A string whose month and day are both out of bounds is reported for its month.
C7_Witness ==
    /\ parsed # <<>>
    /\ Cardinality(Hyphens(input)) = 1
    /\ IsNumeral(MonthSeg(input)) /\ NumeralValue(MonthSeg(input)) > 12
    /\ IsNumeral(DaySeg(input)) /\ NumeralValue(DaySeg(input)) > 31
    /\ parsed[1].err = Error("invalid month", MonthSeg(input))
    /\ parsed[1].month = 0 /\ parsed[1].day = 0

----------------------------------------------------------------------------
(* Properties of New (specification Spec) *)

Parses(s) == ParseMonthDay(s).err = <<>>

Offending(c) ==
    { i \in 1..Len(c.Schedule) :
        ~Parses(c.Schedule[i].Start) \/ ~Parses(c.Schedule[i].End) }

FirstOffending(c) == CHOOSE i \in Offending(c) : \A j \in Offending(c) : i <= j

\* C8: once New has returned, it returned a Scheduler and a nil error exactly
\* when the start and the end of every entry parse; otherwise it returned nil
\* and an error that carries the name of the first entry, in input order, with
\* a boundary that does not parse, and says "start" if that entry's start does
\* not parse and "end" otherwise.
C8_AllOrNothing ==
    pc \in {"ready", "failed"} =>
      /\ (sched # <<>> /\ newErr = <<>>) <=> Offending(cfg) = {}
      /\ Offending(cfg) # {} =>
           LET e == cfg.Schedule[FirstOffending(cfg)] IN
           /\ sched = <<>>
           /\ newErr # <<>>
           /\ newErr[1].name = e.Name
           /\ newErr[1].which = IF ~Parses(e.Start) THEN "start" ELSE "end"
           /\ newErr[1].cause =
                IF ~Parses(e.Start) THEN ParseMonthDay(e.Start).err[1]
                                    ELSE ParseMonthDay(e.End).err[1]

\* New failed on the second of two entries, the first one being fine, and on
\* its start although its end does not parse either.
C8_Witness ==
    /\ pc = "failed"
    /\ Len(cfg.Schedule) = 2
    /\ Offending(cfg) = {2}
    /\ ~Parses(cfg.Schedule[2].Start) /\ ~Parses(cfg.Schedule[2].End)
    /\ sched = <<>>
    /\ newErr[1].name = cfg.Schedule[2].Name
    /\ newErr[1].which = "start"

----------------------------------------------------------------------------
(* Properties of monthDayToDOY (specification SpecDOY) *)

\* The 366-day calendar template.
TemplateLength == <<31, 29, 31, 30, 31, 30, 31, 31, 30, 31, 30, 31>>

RECURSIVE SumLengths(_)
SumLengths(k) == IF k = 0 THEN 0 ELSE SumLengths(k - 1) + TemplateLength[k]

\* Calendar order on (month, day) pairs.
Earlier(p, q) == p[1] < q[1] \/ (p[1] = q[1] /\ p[2] < q[2])

\* The pair is a day of the template: its day does not exceed its month's length.
OnTemplate(p) == p[2] <= TemplateLength[p[1]]

\* C9 as stated: of any two pairs ParseMonthDay accepts, the earlier one in
\* calendar order has the strictly smaller ordinal, and equal ordinals come
\* from identical pairs only.
C9_OrderOnAcceptedPairs ==
    ords # <<>> =>
      /\ Earlier(pairs[1], pairs[2]) => ords[1] < ords[2]
      /\ ords[1] = ords[2] => pairs[1] = pairs[2]

\* C9 amended: of any two accepted pairs whose day does not exceed the length
\* of its month in the template, the earlier one in calendar order has the
\* strictly smaller ordinal, and equal ordinals come from identical pairs only.
C9_OrderOnTemplateDays ==
    ords # <<>> /\ OnTemplate(pairs[1]) /\ OnTemplate(pairs[2]) =>
      /\ Earlier(pairs[1], pairs[2]) => ords[1] < ords[2]
      /\ ords[1] = ords[2] => pairs[1] = pairs[2]

\* February 29 and March 1 have consecutive ordinals.
C9_Witness ==
    /\ ords # <<>>
    /\ pairs = << <<2, 29>>, <<3, 1>> >>
    /\ ords[1] + 1 = ords[2]

\* C10: the ordinal of an accepted pair is the sum of the template's lengths of
\* the months before its month, plus its day, and lies in 1..366.
C10_OrdinalIsPrefixSumPlusDay ==
    ords # <<>> =>
      \A k \in 1..2 :
        /\ ords[k] = SumLengths(pairs[k][1] - 1) + pairs[k][2]
        /\ ords[k] \in 1..366

\* December 31 is day 366 and January 1 is day 1.
C10_Witness ==
    /\ ords # <<>>
    /\ pairs = << <<12, 31>>, <<1, 1>> >>
    /\ ords = <<366, 1>>

----------------------------------------------------------------------------
(* Properties of the Scheduler New builds (specification SpecLookups) *)

\* C11: after a successful New the Scheduler holds one range per entry of
\* cfg.Schedule, in the same order, range i carrying the name, the album and
\* the parsed start and end of entry i; GetScheduleCount answers
\* len(cfg.Schedule) and GetDefaultAlbum answers cfg.DefaultAlbum.
C11_RangesMirrorSchedule ==
    pc = "ready" =>
      /\ sched # <<>>
      /\ Len(sched[1].ranges) = Len(cfg.Schedule)
      /\ \A i \in 1..Len(cfg.Schedule) :
           LET e  == cfg.Schedule[i]
               r  == sched[1].ranges[i]
               st == ParseMonthDay(e.Start)
               en == ParseMonthDay(e.End)
           IN  /\ r.name = e.Name
               /\ r.album = e.Album
               /\ <<r.startMonth, r.startDay>> = <<st.month, st.day>>
               /\ <<r.endMonth, r.endDay>> = <<en.month, en.day>>
      /\ getRes # <<>> /\ getRes[1].op = "GetScheduleCount"
           => getRes[1].val = Len(cfg.Schedule)
      /\ getRes # <<>> /\ getRes[1].op = "GetDefaultAlbum"
           => getRes[1].val = cfg.DefaultAlbum

\* GetScheduleCount answered 2 for a schedule of two different entries.
C11_Witness ==
    /\ pc = "ready"
    /\ Len(cfg.Schedule) = 2
    /\ cfg.Schedule[1] # cfg.Schedule[2]
    /\ sched[1].ranges[1].name = cfg.Schedule[1].Name
    /\ getRes # <<>> /\ getRes[1].op = "GetScheduleCount" /\ getRes[1].val = 2

\* C12: no step taken once a Scheduler exists changes it (its default album or
\* its range list), whichever of the six read methods runs and in whatever
\* order; and a lookup repeated for the same date answers what the earlier
\* lookup for that date answered, as does a repeated getter.
C12_LookupsArePureReads ==
    [][ /\ pc = "ready" => sched' = sched
        /\ albumRes # <<>> /\ albumRes' # <<>> /\ albumRes'[1].date = albumRes[1].date
             => albumRes' = albumRes
        /\ nameRes # <<>> /\ nameRes' # <<>> /\ nameRes'[1].date = nameRes[1].date
             => nameRes' = nameRes
        /\ getRes # <<>> /\ getRes' # <<>> /\ getRes'[1].op = getRes[1].op
             => getRes' = getRes ]_vars

\* All kinds of read have answered on a day after the first, on a Scheduler
\* with two ranges of which the second matched.
C12_Witness ==
    /\ albumRes # <<>> /\ nameRes # <<>> /\ getRes # <<>>
    /\ now.month # 1
    /\ Len(sched[1].ranges) = 2
    /\ albumRes[1].idx = 2

----------------------------------------------------------------------------
(* Properties of the stored ranges (specification SpecRange) *)

\* The ordinal of the specification: the lengths of the earlier months of the
\* 366-day template, plus the day.
ToOrdinal(month, day) == SumLengths(month - 1) + day

\* The CompiledRange of the specification for a schedule entry: both ordinals
\* and the wrap flag, computed once.
CompiledRange(e) ==
    LET st == ParseMonthDay(e.Start)
        en == ParseMonthDay(e.End)
    IN  [startDOY  |-> ToOrdinal(st.month, st.day),
         endDOY    |-> ToOrdinal(en.month, en.day),
         wrapsYear |-> ToOrdinal(en.month, en.day) < ToOrdinal(st.month, st.day)]

CompiledMatch(doy, cr) ==
    IF cr.wrapsYear
      THEN doy >= cr.startDOY \/ doy <= cr.endDOY
      ELSE doy >= cr.startDOY /\ doy <= cr.endDOY

\* C19: in every state after New, before and after any lookup, each stored
\* range has the wrap flag of the CompiledRange of its entry (true exactly when
\* the end ordinal is smaller than the start ordinal), dateInRange on the stored
\* months and days agrees with the match on the compiled ordinals for the
\* current date, and a lookup returned at the range exactly when the compiled
\* range matches the date it was asked for.
C19_StoredRangeRefinesCompiled ==
    sched # <<>> =>
      /\ Len(sched[1].ranges) = Len(cfg.Schedule)
      /\ \A i \in 1..Len(sched[1].ranges) :
           LET r  == sched[1].ranges[i]
               cr == CompiledRange(cfg.Schedule[i])
           IN  /\ r.wrapsYear = cr.wrapsYear
               /\ dateInRange(DateDOY(now), r)
                    = CompiledMatch(ToOrdinal(now.month, now.day), cr)
      /\ \A a \in Answers :
           a[2] = 1 <=> CompiledMatch(ToOrdinal(a[1].month, a[1].day),
                                      CompiledRange(cfg.Schedule[1]))

\* A range that wraps although its end is in a later month than its start
\* ("02-31" to "03-01") answered a lookup in January.
C19_Witness ==
    /\ albumRes # <<>>
    /\ sched[1].ranges[1].wrapsYear
    /\ sched[1].ranges[1].endMonth > sched[1].ranges[1].startMonth
    /\ albumRes[1].date.month = 1
    /\ albumRes[1].idx = 1

\* C20: a range whose start and end have the same ordinal is stored with
\* wrapsYear false, dateInRange holds of the current date exactly when the date
\* has that ordinal, and a lookup returned at the range exactly when it was
\* asked for a date with that ordinal.
C20_SingleDayRange ==
    sched # <<>> =>
      LET r  == sched[1].ranges[1]
          cr == CompiledRange(cfg.Schedule[1])
      IN  cr.startDOY = cr.endDOY =>
            /\ ~r.wrapsYear
            /\ dateInRange(DateDOY(now), r) <=> ToOrdinal(now.month, now.day) = cr.startDOY
            /\ \A a \in Answers :
                 a[2] = 1 <=> ToOrdinal(a[1].month, a[1].day) = cr.startDOY

\* The one-day range from "02-30" to "03-01" answered a lookup on March 1.
C20_Witness ==
    /\ albumRes # <<>> /\ nameRes # <<>>
    /\ cfg.Schedule[1].Start # cfg.Schedule[1].End
    /\ StartDOY(sched[1].ranges[1]) = EndDOY(sched[1].ranges[1])
    /\ albumRes[1].date.month = 3 /\ albumRes[1].date.day = 1
    /\ albumRes[1].idx = 1 /\ nameRes[1].name = "range"

----------------------------------------------------------------------------
(* Properties of the config validation (specification SpecValidate) *)

NonBlank(text) == \E i \in 1..Len(text) : text[i] \notin Space

\* A two-digit MM-DD string of a day of the 366-day template.
TemplateDate(s) ==
    /\ Len(s) = 5
    /\ s[3] = "-"
    /\ \A i \in {1, 2, 4, 5} : s[i] \in Digits
    /\ TwoDigits(s, 1) \in 1..12
    /\ TwoDigits(s, 4) \in 1..31
    /\ TwoDigits(s, 4) <= TemplateLength[TwoDigits(s, 1)]

Acceptable(e) ==
    /\ NonBlank(e.Name)
    /\ NonBlank(e.Album)
    /\ TemplateDate(e.Start)
    /\ TemplateDate(e.End)

\* C17: ScheduleEntry.Validate returns nil exactly when the entry's name and
\* album are not blank and its start and end are two-digit MM-DD strings of a
\* day of the template (month 01..12, day 01..31, day within the month's length
\* with February at 29); Config.Validate returns an error for every config
\* that has an entry which is not of that kind.
C17_ValidateAcceptsTemplateDates ==
    /\ entryRes # <<>> =>
         (entryRes[1].err = <<>> <=> Acceptable(cfg.Schedule[entryRes[1].i]))
    /\ cfgRes # <<>> =>
         ((\E i \in 1..Len(cfg.Schedule) : ~Acceptable(cfg.Schedule[i]))
            => cfgRes[1].err # <<>>)

\* An entry that starts on "02-30", which dateRegex matches, was refused by
\* both operations on account of its start date.
C17_Witness ==
    /\ entryRes # <<>> /\ cfgRes # <<>>
    /\ cfg.Schedule[entryRes[1].i].Start = Str("0","2","3","0")
    /\ entryRes[1].err # <<>> /\ entryRes[1].err[1].kind = "invalid start date"
    /\ cfgRes[1].err # <<>> /\ cfgRes[1].err[1].kind = "schedule entry"

----------------------------------------------------------------------------
(* Properties of SanitizeParam and server.New (specification SpecSanitize) *)

\* The string without its surrounding white space: from its first character
\* that is not white space to its last.
Trimmed(s) ==
    LET inside == { i \in 1..Len(s) : s[i] \notin Space }
    IN  IF inside = {} THEN <<>>
        ELSE SubSeq(s, CHOOSE i \in inside : \A j \in inside : i <= j,
                       CHOOSE i \in inside : \A j \in inside : i >= j)

\* A name that starts with a letter and has only letters, digits, underscores
\* and hyphens.
SafeName(p) ==
    /\ p # <<>>
    /\ p[1] \in Letters
    /\ \A i \in 1..Len(p) : p[i] \in Letters \/ p[i] \in Digits \/ p[i] \in {"_", "-"}

Listed(c) == { c.PassthroughParams[i] : i \in 1..Len(c.PassthroughParams) }

\* C18: SanitizeParam returns the trimmed input and true exactly when the
\* trimmed input is a safe name, and the empty string and false for every other
\* input; the allow-list of the Server that server.New returns holds the
\* trimmed form of every configured name that is safe, and nothing else.
C18_SanitizeParamAndAllowList ==
    /\ sanRes # <<>> =>
         LET p == Trimmed(cfg.PassthroughParams[sanRes[1].i])
         IN  IF SafeName(p)
               THEN sanRes[1].valid /\ sanRes[1].param = p
               ELSE ~sanRes[1].valid /\ sanRes[1].param = <<>>
    /\ srv # <<>> =>
         srv[1].passthroughParams =
           { Trimmed(x) : x \in { y \in Listed(cfg) : SafeName(Trimmed(y)) } }

\* Of two configured names, the padded " a " went into the allow-list as "a"
\* and the other was refused by SanitizeParam and dropped by server.New.
C18_Witness ==
    /\ srv # <<>> /\ sanRes # <<>>
    /\ Len(cfg.PassthroughParams) = 2
    /\ cfg.PassthroughParams[1] = <<" ", "a", " ">>
    /\ sanRes[1].i = 2 /\ ~sanRes[1].valid
    /\ srv[1].passthroughParams = { <<"a">> }

----------------------------------------------------------------------------
(* Properties of GET / (specifications SpecRedirect and SpecGauge) *)

\* The handlers that have answered with a redirect.
Redirected ==
    { h \in DOMAIN handlers : handlers[h].pc = "done" /\ handlers[h].status = 302 }

\* The (name, value) pairs of a query kept by key.
ParamsOf(values) ==
    UNION { { <<k, values[k][i]>> : i \in 1..Len(values[k]) } : k \in DOMAIN values }

\* The (name, value) pairs of a query string.
PairsOf(query) == { query[i] : i \in 1..Len(query) }

\* The configured passthrough names that pass SanitizeParam, trimmed.
AllowListed == { Trimmed(x) : x \in { y \in Listed(cfg) : SafeName(Trimmed(y)) } }

\* C14: in the Location of every redirect, (a) a parameter is the album the
\* handler set, a parameter of the kiosk URL, or a parameter of the request
\* whose name is allow-listed; (b) every parameter of the request that has an
\* allow-listed name and a non-empty value is there with that value; (c) no
\* name of the request that is not allow-listed is there, unless it is the
\* album parameter or a parameter of the kiosk URL.
C14_PassthroughAllowList ==
    \A h \in Redirected :
      LET location == handlers[h].location[1].RawQuery
          request  == PairsOf(handlers[h].query)
          kiosk    == PairsOf(urlParse(cfg.KioskURL).RawQuery)
      IN  /\ \A p \in ParamsOf(location) :
               \/ p = <<albumParam, handlers[h].album>>
               \/ p \in kiosk
               \/ p \in request /\ p[1] \in AllowListed
          /\ \A p \in request :
               p[1] \in AllowListed /\ p[2] # "" => p \in ParamsOf(location)
          /\ \A p \in request :
               p[1] \notin AllowListed =>
                 \/ p[1] \notin DOMAIN location
                 \/ p[1] = albumParam
                 \/ \E k \in kiosk : k[1] = p[1]

\* C15: a handler that has answered has answered 500 without a change to the
\* counter or the gauge if the kiosk URL does not parse, and otherwise 302 with
\* a Location of the kiosk URL's scheme and host whose album parameter is the
\* album of the scheduler for the date of the handler's lookup.
C15_RedirectOrServerError ==
    \A h \in DOMAIN handlers :
      handlers[h].pc = "done" =>
        IF urlParse(cfg.KioskURL).err
          THEN /\ handlers[h].status = 500
               /\ redirectsTotal = <<>>
               /\ currentSchedule = <<>>
          ELSE /\ handlers[h].status = 302
               /\ handlers[h].location # <<>>
               /\ handlers[h].location[1].Scheme = urlParse(cfg.KioskURL).Scheme
               /\ handlers[h].location[1].Host = urlParse(cfg.KioskURL).Host
               /\ albumParam \in DOMAIN handlers[h].location[1].RawQuery
               /\ handlers[h].location[1].RawQuery[albumParam]
                    = <<GetAlbumForDate(sched[1], handlers[h].albumDate[1])>>

\* C16: no two labels of the gauge carry the value 1 at any time, and when
\* every handler that received a request has answered and one has redirected,
\* the gauge has one label, with the value 1, the schedule name of a handler
\* that redirected.
C16_GaugeHasOneActiveLabel ==
    /\ Cardinality({ l \in DOMAIN currentSchedule : currentSchedule[l] = 1 }) <= 1
    /\ (/\ \A h \in DOMAIN handlers : handlers[h].pc \in {"idle", "done"}
        /\ Redirected # {})
         => \E h \in Redirected :
              /\ DOMAIN currentSchedule = { handlers[h].scheduleName }
              /\ currentSchedule[handlers[h].scheduleName] = 1

----------------------------------------------------------------------------
(* Properties of Load followed by New (specification SpecLoad) *)

\* C21: a start or end string of an entry that ScheduleEntry.Validate accepted
\* is accepted by ParseMonthDay, with the month and the day its two pairs of
\* digits spell; and scheduler.New, called on a config for which
\* Config.Validate returned nil, returns a Scheduler and no error, with those
\* months and days in its ranges.
C21_ValidateStricterThanParse ==
    /\ (entryRes # <<>> /\ entryRes[1].err = <<>>) =>
         \A s \in { cfg.Schedule[entryRes[1].i].Start, cfg.Schedule[entryRes[1].i].End } :
           /\ ParseMonthDay(s).err = <<>>
           /\ ParseMonthDay(s).month = TwoDigits(s, 1)
           /\ ParseMonthDay(s).day = TwoDigits(s, 4)
    /\ (cfgRes # <<>> /\ cfgRes[1].err = <<>> /\ pc # "start") =>
         /\ pc = "ready"
         /\ newErr = <<>>
         /\ sched # <<>>
         /\ Len(sched[1].ranges) = Len(cfg.Schedule)
         /\ \A i \in 1..Len(cfg.Schedule) :
              /\ sched[1].ranges[i].startMonth = TwoDigits(cfg.Schedule[i].Start, 1)
              /\ sched[1].ranges[i].startDay = TwoDigits(cfg.Schedule[i].Start, 4)
              /\ sched[1].ranges[i].endMonth = TwoDigits(cfg.Schedule[i].End, 1)
              /\ sched[1].ranges[i].endDay = TwoDigits(cfg.Schedule[i].End, 4)

\* A config whose entry runs from "12-31" to "01-01" passed both validations
\* and New returned its Scheduler.
C21_Witness ==
    /\ pc = "ready"
    /\ cfgRes # <<>> /\ cfgRes[1].err = <<>>
    /\ entryRes # <<>> /\ entryRes[1].err = <<>>
    /\ cfg.Schedule[1].Start = Str("1","2","3","1")
    /\ sched[1].ranges[1].startDay = 31

----------------------------------------------------------------------------
(* Properties of one request's two lookups (specification SpecRoutes) *)

\* The album and the name are those of one range of the Scheduler, or the
\* default album and the name "default".
SameSelection(a, n) ==
    \/ \E i \in 1..Len(sched[1].ranges) :
         sched[1].ranges[i].album = a /\ sched[1].ranges[i].name = n
    \/ a = sched[1].defaultAlbum /\ n = "default"

\* C22: the album in the Location of a redirect and the schedule label the
\* handler counted, and the album and the schedule of a /healthz body, are the
\* album and the name of one range, or the default album and "default".
C22_AlbumAndNameOfOneRange ==
    \A h \in DOMAIN handlers :
      /\ (handlers[h].pc = "done" /\ handlers[h].status = 302) =>
           /\ handlers[h].scheduleName \in DOMAIN redirectsTotal
           /\ SameSelection(handlers[h].location[1].RawQuery[albumParam][1],
                            handlers[h].scheduleName)
      /\ (handlers[h].pc = "done" /\ handlers[h].status = 200) =>
           SameSelection(handlers[h].body[1].album, handlers[h].body[1].schedule)

----------------------------------------------------------------------------
(* Property of the album parameter (specification SpecRedirect) *)

\* C23: in the Location of every redirect the album parameter has one value,
\* the album of the scheduler for the date of the handler's lookup, whatever
\* the request, the allow-list and the kiosk URL.
C23_AlbumIsTheSchedulersAlbum ==
    \A h \in Redirected :
      /\ albumParam \in DOMAIN handlers[h].location[1].RawQuery
      /\ Len(handlers[h].location[1].RawQuery[albumParam]) = 1
      /\ handlers[h].location[1].RawQuery[albumParam][1]
           = GetAlbumForDate(sched[1], handlers[h].albumDate[1])

----------------------------------------------------------------------------
(* Property of the test command (specification SpecTest) *)

\* C25: when the test command was given a --date that ParseMonthDay accepts as
\* (m, d), the date it looked up has the month m and the day d, and so the
\* ordinal monthDayToDOY(m, d).
C25_TestDateIsMonthAndDay ==
    (testRes # <<>> /\ testRes[1].dateStr # <<>> /\ testRes[1].err = <<>>) =>
      LET r == ParseMonthDay(testRes[1].dateStr)
          d == testRes[1].testDate[1]
      IN  /\ d.month = r.month
          /\ d.day = r.day
          /\ monthDayToDOY(d.month, d.day) = monthDayToDOY(r.month, r.day)


----------------------------------------------------------------------------
(* C24: graceful shutdown *)

Returned == serve # <<>> /\ serve[1].main = "returned"

\* C24 as stated: once the context is cancelled StartWithContext calls
\* Shutdown and eventually returns; when ListenAndServe failed first with an
\* error other than ErrServerClosed, StartWithContext returns that error; the
\* listener goroutine is never blocked sending on errCh.
C24_GracefulShutdown ==
    /\ [](Returned =>
            /\ serve[1].first = "cancel" => serve[1].shutdownCalled
            /\ serve[1].first = "fail" =>
                 ~serve[1].shutdownCalled /\ serve[1].ret = serve[1].listenErr)
    /\ [](serve # <<>> /\ serve[1].listener = "failed" =>
            serve[1].main = "parked" \/ Len(serve[1].errCh) < errChCap)
    /\ (serve # <<>> /\ serve[1].ctxDone) ~> Returned

\* C24, amended: StartWithContext returns in every execution in which the
\* context is cancelled or ListenAndServe fails.  It returns the result of
\* Shutdown, which it calls only after the context was cancelled, or the
\* error ListenAndServe failed with.  What was ready when it reached its
\* select decides: only the context, Shutdown is called; only the error,
\* the error is returned; both, either one.  The listener goroutine is never
\* blocked sending on errCh.
C24_ShutdownOrError ==
    /\ [](Returned =>
            /\ IF serve[1].shutdownCalled
                 THEN /\ serve[1].ctxDone
                      /\ serve[1].ret \in {<<"nil">>, <<"context deadline exceeded">>}
                 ELSE /\ serve[1].listenErr # <<>>
                      /\ serve[1].ret = serve[1].listenErr
            /\ serve[1].ready = "done" => serve[1].shutdownCalled
            /\ serve[1].ready = "err" => ~serve[1].shutdownCalled)
    /\ [](serve # <<>> /\ serve[1].listener = "failed" =>
            serve[1].main = "parked" \/ Len(serve[1].errCh) < errChCap)
    /\ (serve # <<>> /\ (serve[1].ctxDone \/ serve[1].listenErr # <<>>)) ~> Returned

\* ListenAndServe failed before the context was cancelled, both were ready
\* at the select, and Shutdown was called with a connection still open.
C24_Witness ==
    /\ Returned
    /\ serve[1].first = "fail"
    /\ serve[1].ready = "both"
    /\ serve[1].shutdownCalled
    /\ serve[1].ret = <<"nil">>
    /\ serve[1].listener = "exited"

====
